---- MODULE Spec2Model ----
(***************************************************************************)
(* ClawMesh: trust policy, forward handler, peer registry, world model and *)
(* the two-node runtime flow, modelled from the TypeScript sources.        *)
(*                                                                         *)
(* Encoding of JavaScript values:                                          *)
(*   - a missing field (undefined) is the string Absent;                   *)
(*   - a missing array is the one-element sequence NoList, so that arrays   *)
(*     and their absence live in one set of sequences;                      *)
(*   - an optional object (payload.trust, payload.command) is a record with *)
(*     a boolean field `present`.                                           *)
(***************************************************************************)
EXTENDS Integers, Sequences, FiniteSets, TLC

VARIABLES
    trustIn,          \* trust-policy.ts: the trust block handed to evaluateMeshForwardTrust
    trustOut,         \* trust-policy.ts: the TrustDecision it returned ("unevaluated" before)
    fwdIn,            \* forward.ts: params of the mesh.message.forward request being handled
    fwdSinkThrows,    \* forward.ts: whether deps.onForward rejects for this request
    fwdResp,          \* forward.ts: the code passed to respond(...) ("none" before)
    onForwardCalls,   \* forward.ts: number of calls of deps.onForward
    senderDecision,   \* node-runtime.ts: the sender-side trustDecision for the same payload
    reg,              \* peer-registry.ts: one PeerRegistry (its three maps, timers, resolutions)
    nextRequestId,    \* peer-registry.ts: the next fresh requestId invoke draws
    world,            \* world-model.ts: one WorldModel (entries, frameLog, seenFrameIds)
    ingestTrue,       \* world-model.ts: per frameId, how many times ingest returned true
    arrivals,         \* node-runtime.ts: number of context.frame events handled so far
    lastIngest,       \* world-model.ts: the last ingest call (its frame, result, trims so far)
    nodeA,            \* node-runtime.ts: the dialing runtime (registry, outbound client, calls)
    nodeB,            \* node-runtime.ts: the accepting runtime (registry, trust store, actuator)
    net,              \* the WebSocket between them: frames in flight in each direction
    resolveIn,        \* command-envelope.ts: the payload given to resolveMeshForwardTrustMetadata
    resolveOut,       \* command-envelope.ts: its result ([ok, code, trust]; code "none" before)
    gossipNodes,      \* node-runtime.ts: per runtime, its registry's peers and its world model
    gossipNet,        \* the sessions between the runtimes and the event frames in flight
    capsByPeer,       \* capabilities.ts: MeshCapabilityRegistry's map, in insertion order
    routeCall,        \* routing.ts: the last resolveMeshRoute call and its result
    hsIn,             \* handshake.ts: Date.now() and the params given to verifyMeshConnectAuth
    hsOut,            \* handshake.ts: what verifyMeshConnectAuth returned ("unverified" before)
    knownPeers,       \* discovery.ts: MeshDiscovery.knownPeers, deviceIds in insertion order
    discovery,        \* discovery.ts: events emitted so far, and the scans' results
    storeFile,        \* peer-trust.ts: the trusted-peers.json file (exists, peers)
    storeLock,        \* peer-trust.ts: the holder of the file lock ("none" when free)
    storeProcs,       \* peer-trust.ts: per process, the store operation in progress
    sockets,          \* node-runtime.ts / peer-client.ts: the socket behind each connId
    managers,         \* manager.ts: two MeshManagers that may discover each other
    replicas,         \* world-model.ts: two WorldModels fed the same frames, and a query
    inbound           \* node-runtime.ts: one accepted socket and what its frames caused

trustVars == <<trustIn, trustOut>>
fwdVars == <<fwdIn, fwdSinkThrows, fwdResp, onForwardCalls, senderDecision>>
regVars == <<reg, nextRequestId>>
worldVars == <<world, ingestTrue, arrivals, lastIngest>>
meshVars == <<nodeA, nodeB, net>>
resolveVars == <<resolveIn, resolveOut>>
gossipVars == <<gossipNodes, gossipNet>>
routeVars == <<capsByPeer, routeCall>>
hsVars == <<hsIn, hsOut>>
discVars == <<knownPeers, discovery>>
storeVars == <<storeFile, storeLock, storeProcs>>
sockVars == <<sockets>>
tieVars == <<managers>>
repVars == <<replicas>>
inVars == <<inbound>>
lateVars == <<sockVars, tieVars, repVars, inVars>>
secondVars == <<resolveVars, gossipVars, routeVars, hsVars, discVars, storeVars>>
moreVars == <<secondVars, lateVars>>
vars == <<trustVars, fwdVars, regVars, worldVars, meshVars, moreVars>>
NotTrustVars == <<fwdVars, regVars, worldVars, meshVars, moreVars>>
NotFwdVars == <<trustVars, regVars, worldVars, meshVars, moreVars>>
NotRegVars == <<trustVars, fwdVars, worldVars, meshVars, moreVars>>
NotWorldVars == <<trustVars, fwdVars, regVars, meshVars, moreVars>>
NotMeshVars == <<trustVars, fwdVars, regVars, worldVars, moreVars>>
firstVars == <<trustVars, fwdVars, regVars, worldVars, meshVars>>
NotResolveVars == <<firstVars, gossipVars, routeVars, hsVars, discVars, storeVars, lateVars>>
NotGossipVars == <<firstVars, resolveVars, routeVars, hsVars, discVars, storeVars, lateVars>>
NotRouteVars == <<firstVars, resolveVars, gossipVars, hsVars, discVars, storeVars, lateVars>>
NotHsVars == <<firstVars, resolveVars, gossipVars, routeVars, discVars, storeVars, lateVars>>
NotStoreVars == <<firstVars, resolveVars, gossipVars, routeVars, hsVars, discVars, lateVars>>
NotDiscVars == <<firstVars, resolveVars, gossipVars, routeVars, hsVars, storeVars, lateVars>>

NotSockVars ==
    <<trustVars, fwdVars, worldVars, meshVars,
      resolveVars, gossipVars, routeCall, hsVars, discVars, storeVars, tieVars, repVars, inVars>>
NotTieVars == <<firstVars, secondVars, sockVars, repVars, inVars>>
NotRepVars == <<firstVars, secondVars, sockVars, tieVars, inVars>>
NotInVars == <<firstVars, secondVars, sockVars, tieVars, repVars>>

Absent == "absent"
NoList == <<Absent>>
None == "none"

-----------------------------------------------------------------------------
(* types.ts: MeshTrustTier, MeshVerificationRequired, MeshForwardTrustMetadata *)

T0 == "T0_planning_inference"
T1 == "T1_unverified_observation"
T2 == "T2_operational_observation"
T3 == "T3_verified_action_evidence"

MeshTrustTier == {T0, T1, T2, T3}
MeshVerificationRequired == {"none", "device", "human", "device_or_human"}

\* Names every object literal inherits from Object.prototype (two of them);
\* `"constructor" in TRUST_TIER_ORDER` is true in JavaScript.
ObjectPrototypeKeys == {"constructor", "toString"}

\* TRUST_TIER_ORDER[value]: a number for the four own keys; for an inherited
\* key the inherited function, which the relational operators convert to its
\* source string ("function Object() {...}" sorts before "function toString() {...}").
TRUST_TIER_ORDER(value) ==
    CASE value = T0 -> [kind |-> "number", n |-> 0]
      [] value = T1 -> [kind |-> "number", n |-> 1]
      [] value = T2 -> [kind |-> "number", n |-> 2]
      [] value = T3 -> [kind |-> "number", n |-> 3]
      [] value = "constructor" -> [kind |-> "string", n |-> 0]
      [] value = "toString" -> [kind |-> "string", n |-> 1]
      [] OTHER -> [kind |-> "undefined", n |-> 0]

\* JavaScript a >= b: numbers compare numerically, two strings compare
\* lexicographically, and every other pairing goes through NaN and is false.
JsGte(a, b) ==
    /\ a.kind = b.kind
    /\ a.kind \in {"number", "string"}
    /\ a.n >= b.n

\* typeof value === "string" && value in TRUST_TIER_ORDER
isKnownTrustTier(value) ==
    /\ value # Absent
    /\ value \in (MeshTrustTier \cup ObjectPrototypeKeys)

\* VALID_VERIFICATION_REQUIREMENTS.has(value): a Set, own members only
isKnownVerificationRequirement(value) ==
    /\ value # Absent
    /\ value \in MeshVerificationRequired

hasAtLeastTrustTier(actual, minimum) ==
    JsGte(TRUST_TIER_ORDER(actual), TRUST_TIER_ORDER(minimum))

NoTrust ==
    [present |-> FALSE, action_type |-> Absent, evidence_trust_tier |-> Absent,
     minimum_trust_tier |-> Absent, verification_required |-> Absent,
     verification_satisfied |-> Absent, evidence_sources |-> NoList,
     approved_by |-> NoList]

\* evidenceSources.every((source) => source === "llm")
EveryLlm(sources) == \A i \in 1..Len(sources) : sources[i] = "llm"

\* trust.evidence_sources ?? []
SourcesOrEmpty(trust) ==
    IF trust.evidence_sources = NoList THEN <<>> ELSE trust.evidence_sources

\* evaluateMeshForwardTrust(payload), payload.trust = trust; returns "ok" or the denial code
evaluateMeshForwardTrust(trust) ==
    IF ~trust.present THEN "ok"
    ELSE IF trust.evidence_trust_tier # Absent /\ ~isKnownTrustTier(trust.evidence_trust_tier)
        THEN "INVALID_TRUST_POLICY"
    ELSE IF trust.minimum_trust_tier # Absent /\ ~isKnownTrustTier(trust.minimum_trust_tier)
        THEN "INVALID_TRUST_POLICY"
    ELSE IF /\ trust.verification_required # Absent
            /\ ~isKnownVerificationRequirement(trust.verification_required)
        THEN "INVALID_TRUST_POLICY"
    ELSE IF trust.action_type # "actuation" THEN "ok"
    ELSE IF \/ trust.evidence_trust_tier = Absent
            \/ trust.minimum_trust_tier = Absent
            \/ trust.verification_required = Absent
        THEN "TRUST_METADATA_REQUIRED"
    ELSE IF Len(SourcesOrEmpty(trust)) > 0 /\ EveryLlm(SourcesOrEmpty(trust))
        THEN "LLM_ONLY_ACTUATION_BLOCKED"
    ELSE IF ~hasAtLeastTrustTier(trust.evidence_trust_tier, trust.minimum_trust_tier)
        THEN "INSUFFICIENT_TRUST_TIER"
    ELSE IF trust.verification_required # "none" /\ trust.verification_satisfied # "true"
        THEN "VERIFICATION_REQUIRED"
    ELSE "ok"

TrustDenials ==
    {"INVALID_TRUST_POLICY", "TRUST_METADATA_REQUIRED", "INSUFFICIENT_TRUST_TIER",
     "VERIFICATION_REQUIRED", "LLM_ONLY_ACTUATION_BLOCKED"}

-----------------------------------------------------------------------------
(* Inputs of the trust-policy specification: every combination of the field *)
(* values below, and the missing trust block.                               *)

ActionTypeInputs == {Absent, "observation", "actuation"}
TierInputs == {Absent, T0, T1, T2, T3, "bogus", "constructor", "toString"}
VerificationInputs == {Absent, "none", "human", "bogus"}
SatisfiedInputs == {Absent, "true", "false"}
SourcesInputs ==
    {NoList, <<>>, <<"llm">>, <<"llm", "llm">>, <<"llm", "sensor">>, <<"sensor", "human">>}

TrustInputs ==
    {NoTrust} \cup
    [present : {TRUE}, action_type : ActionTypeInputs, evidence_trust_tier : TierInputs,
     minimum_trust_tier : TierInputs, verification_required : VerificationInputs,
     verification_satisfied : SatisfiedInputs, evidence_sources : SourcesInputs,
     approved_by : {NoList}]

InitTrust ==
    /\ trustIn \in TrustInputs
    /\ trustOut = "unevaluated"

\* One call of evaluateMeshForwardTrust on the payload drawn by Init.
Evaluate ==
    /\ trustOut = "unevaluated"
    /\ trustOut' = evaluateMeshForwardTrust(trustIn)
    /\ UNCHANGED <<trustIn, NotTrustVars>>

-----------------------------------------------------------------------------
(* command-envelope.ts *)

\* Array.prototype.sort() default order (UTF-16 code units) on the strings
\* that occur in evidence_sources and approved_by.
JsStringRank(s) ==
    CASE s = "device" -> 0
      [] s = "human" -> 1
      [] s = "llm" -> 2
      [] s = "mixed" -> 3
      [] s = "operator:local-cli" -> 4
      [] s = "operator:rohith" -> 5
      [] s = "sensor" -> 6
      [] OTHER -> 7

RECURSIVE InsertSorted(_, _)
InsertSorted(x, sorted) ==
    IF sorted = <<>> THEN <<x>>
    ELSE IF JsStringRank(x) <= JsStringRank(Head(sorted)) THEN <<x>> \o sorted
    ELSE <<Head(sorted)>> \o InsertSorted(x, Tail(sorted))

RECURSIVE JsSort(_)
JsSort(list) ==
    IF list = <<>> THEN <<>> ELSE InsertSorted(Head(list), JsSort(Tail(list)))

\* A copy that is not sorted.
SortedIfArray_Unsorted(list) == list

\* [...value].sort() for an array, the value itself when the field is missing
SortedIfArray(list) == IF list = NoList THEN NoList ELSE JsSort(list)

\* canonicalizeTrust(trust): the JSON text of the object holding the seven
\* TRUST_KEYS in their fixed order, arrays sorted, undefined fields left out;
\* "" for a missing block. Two such texts are equal exactly when these
\* normalized records are.
canonicalizeTrust(trust) ==
    IF ~trust.present THEN NoTrust
    ELSE [trust EXCEPT !.evidence_sources = SortedIfArray(trust.evidence_sources),
                       !.approved_by = SortedIfArray(trust.approved_by)]

NoCommand ==
    [present |-> FALSE, version |-> 0, kind |-> Absent, commandId |-> Absent,
     createdAtMs |-> Absent, target_ref |-> Absent, operation_name |-> Absent,
     trust |-> NoTrust]

\* createClawMeshCommandEnvelope(params)
createClawMeshCommandEnvelope(commandId, targetRef, operationName, trust) ==
    [present |-> TRUE, version |-> 1, kind |-> "clawmesh.command", commandId |-> commandId,
     createdAtMs |-> "number", target_ref |-> targetRef, operation_name |-> operationName,
     trust |-> trust]

\* validateClawMeshCommandEnvelope(envelope); its own isKnownTrustTier compares with ===
validateClawMeshCommandEnvelope(envelope) ==
    /\ envelope.present
    /\ envelope.version = 1
    /\ envelope.kind = "clawmesh.command"
    /\ envelope.commandId \notin {Absent, ""}
    /\ envelope.createdAtMs = "number"
    /\ envelope.target_ref # Absent
    /\ envelope.operation_name # Absent
    /\ envelope.trust.present
    /\ envelope.trust.action_type \in {"communication", "observation", "actuation"}
    /\ envelope.trust.evidence_trust_tier \in MeshTrustTier
    /\ envelope.trust.minimum_trust_tier \in MeshTrustTier
    /\ envelope.trust.verification_required \in MeshVerificationRequired

\* resolveMeshForwardTrustMetadata(payload)
resolveMeshForwardTrustMetadata(payload) ==
    IF ~payload.command.present
        THEN [ok |-> TRUE, code |-> "ok", trust |-> payload.trust]
    ELSE IF ~validateClawMeshCommandEnvelope(payload.command)
        THEN [ok |-> FALSE, code |-> "INVALID_COMMAND_ENVELOPE", trust |-> NoTrust]
    ELSE IF /\ payload.trust.present
            /\ canonicalizeTrust(payload.trust) # canonicalizeTrust(payload.command.trust)
        THEN [ok |-> FALSE, code |-> "TRUST_ENVELOPE_MISMATCH", trust |-> NoTrust]
    ELSE [ok |-> TRUE, code |-> "ok", trust |-> payload.command.trust]

-----------------------------------------------------------------------------
(* server-methods/forward.ts and the sender-side check of node-runtime.ts *)

LocalDeviceId == "local-gateway-id"

\* The mesh.message.forward handler without its loop check.
MeshMessageForward_NoLoopCheck(p, localDeviceId, sinkThrows) ==
    IF p.channel = Absent \/ p.to = Absent \/ p.originGatewayId = Absent
        THEN [code |-> "INVALID_PARAMS", invoked |-> FALSE]
    ELSE IF sinkThrows THEN [code |-> "DELIVERY_FAILED", invoked |-> TRUE]
    ELSE [code |-> "ok", invoked |-> TRUE]

\* createMeshForwardHandlers(deps)["mesh.message.forward"]: the code it
\* responds with and whether deps.onForward was called.
MeshMessageForward(p, localDeviceId, sinkThrows) ==
    IF p.channel = Absent \/ p.to = Absent \/ p.originGatewayId = Absent
        THEN [code |-> "INVALID_PARAMS", invoked |-> FALSE]
    ELSE IF p.originGatewayId = localDeviceId
        THEN [code |-> "LOOP_DETECTED", invoked |-> FALSE]
    ELSE IF sinkThrows THEN [code |-> "DELIVERY_FAILED", invoked |-> TRUE]
    ELSE [code |-> "ok", invoked |-> TRUE]

\* A sender that evaluates nothing.
SenderTrustDecision_NoCheck(trust) == "ok"

\* sendMockActuation: evaluateMeshForwardTrust(senderPayload), senderPayload.trust = trust
SenderTrustDecision(trust) == evaluateMeshForwardTrust(trust)

Trust(actionType, evidenceTier, minimumTier, verification, satisfied, sources, approvedBy) ==
    [present |-> TRUE, action_type |-> actionType, evidence_trust_tier |-> evidenceTier,
     minimum_trust_tier |-> minimumTier, verification_required |-> verification,
     verification_satisfied |-> satisfied, evidence_sources |-> sources,
     approved_by |-> approvedBy]

\* node-runtime.ts defaultActuationTrust()
defaultActuationTrust ==
    Trust("actuation", T3, T2, "human", "true", <<"sensor", "human">>, <<"operator:local-cli">>)

\* node-runtime.ts buildLlmOnlyActuationTrust()
buildLlmOnlyActuationTrust ==
    Trust("actuation", T3, T2, "none", Absent, <<"llm">>, NoList)

\* Trust blocks of the repository's tests and of scenario S6, a block with the
\* sources in the other order, and blocks outside the enum domains.
InsufficientTierTrust == Trust("actuation", T1, T2, "none", Absent, <<"sensor">>, NoList)
UnverifiedTrust == Trust("actuation", T3, T2, "human", Absent, <<"sensor", "human">>, NoList)
ObservationTrust == Trust("observation", T0, T0, "none", Absent, <<"llm">>, NoList)
MissingMetadataTrust == Trust("actuation", Absent, Absent, Absent, Absent, NoList, NoList)
BogusTierTrust == Trust("actuation", "bogus", T2, "none", Absent, <<"sensor">>, NoList)
InheritedKeyTrust ==
    Trust("actuation", "constructor", "constructor", "none", Absent, <<"sensor">>, NoList)
StricterTopLevelTrust == [defaultActuationTrust EXCEPT !.minimum_trust_tier = T3]
ReorderedTrust == [defaultActuationTrust EXCEPT !.evidence_sources = <<"human", "sensor">>]

ForwardTrustInputs ==
    {NoTrust, defaultActuationTrust, buildLlmOnlyActuationTrust, InsufficientTierTrust,
     UnverifiedTrust, ObservationTrust, MissingMetadataTrust, BogusTierTrust,
     InheritedKeyTrust, StricterTopLevelTrust, ReorderedTrust}

CommandInputs ==
    {NoCommand}
    \cup {createClawMeshCommandEnvelope("cmd-1", "actuator:mock:valve-1", "open", t) :
            t \in ForwardTrustInputs}
    \cup {[createClawMeshCommandEnvelope("cmd-1", "actuator:mock:valve-1", "open",
                                         defaultActuationTrust) EXCEPT !.kind = "command"]}

ForwardInputs ==
    [channel : {Absent, "clawmesh"}, to : {Absent, "actuator:mock:valve-1"},
     originGatewayId : {Absent, LocalDeviceId, "peer-jetson"},
     command : CommandInputs, trust : ForwardTrustInputs]

InitForward ==
    /\ fwdIn \in ForwardInputs
    /\ fwdSinkThrows \in BOOLEAN
    /\ fwdResp = "none"
    /\ onForwardCalls = 0
    /\ senderDecision = "unevaluated"

\* The receiver handles the request: one run of the mesh.message.forward handler.
ReceiveForward ==
    /\ fwdResp = "none"
    /\ LET r == MeshMessageForward(fwdIn, LocalDeviceId, fwdSinkThrows) IN
        /\ fwdResp' = r.code
        /\ onForwardCalls' = onForwardCalls + (IF r.invoked THEN 1 ELSE 0)
    /\ UNCHANGED <<fwdIn, fwdSinkThrows, senderDecision, NotFwdVars>>

\* The sender-side check of sendMockActuation on the same payload's trust.
SenderCheck ==
    /\ senderDecision = "unevaluated"
    /\ senderDecision' = SenderTrustDecision(fwdIn.trust)
    /\ UNCHANGED <<fwdIn, fwdSinkThrows, fwdResp, onForwardCalls, NotFwdVars>>

-----------------------------------------------------------------------------
(* capabilities.ts: MeshCapabilityRegistry; routing.ts: resolveMeshRoute *)

Channels == {"telegram", "slack"}
Capabilities == {"channel:telegram", "skill:telegram", "channel:slack"}
RoutePeers == {"peer-aaa", "peer-bbb"}

\* The template string `channel:${channel}`
ChannelCapability(channel) ==
    CASE channel = "telegram" -> "channel:telegram"
      [] channel = "slack" -> "channel:slack"

\* The template string `skill:${skill}`
SkillCapability(skill) ==
    CASE skill = "telegram" -> "skill:telegram"
      [] skill = "slack" -> "skill:slack"

\* localCapabilities, an optional Set<string>
LocalCapabilityInputs ==
    {[present |-> FALSE, caps |-> {}]} \cup [present : {TRUE}, caps : SUBSET Capabilities]

\* Map.set: a new key goes last, an existing key keeps its place
updatePeer(map, deviceId, capabilities) ==
    IF \E i \in 1..Len(map) : map[i].deviceId = deviceId
    THEN [i \in 1..Len(map) |->
            IF map[i].deviceId = deviceId
            THEN [deviceId |-> deviceId, caps |-> capabilities] ELSE map[i]]
    ELSE Append(map, [deviceId |-> deviceId, caps |-> capabilities])

\* Map.delete
removePeer(map, deviceId) == SelectSeq(map, LAMBDA e : e.deviceId # deviceId)

\* A lookup that takes a skill for a channel.
findPeerWithChannel_OrSkill(map, channel) ==
    LET hits == {i \in 1..Len(map) :
                    {ChannelCapability(channel), SkillCapability(channel)} \cap map[i].caps # {}}
    IN IF hits = {} THEN Absent
       ELSE map[CHOOSE i \in hits : \A j \in hits : i <= j].deviceId

\* The first peer in iteration order whose set has `channel:${channel}`, else null
findPeerWithChannel(map, channel) ==
    LET hits == {i \in 1..Len(map) : ChannelCapability(channel) \in map[i].caps}
    IN IF hits = {} THEN Absent
       ELSE map[CHOOSE i \in hits : \A j \in hits : i <= j].deviceId

resolveMeshRoute(channel, map, localCapabilities) ==
    IF localCapabilities.present /\ ChannelCapability(channel) \in localCapabilities.caps
    THEN [kind |-> "local", peerDeviceId |-> Absent]
    ELSE LET peerDeviceId == findPeerWithChannel(map, channel) IN
         IF peerDeviceId # Absent /\ peerDeviceId # ""
         THEN [kind |-> "mesh", peerDeviceId |-> peerDeviceId]
         ELSE [kind |-> "unavailable", peerDeviceId |-> Absent]

NoRouteCall ==
    [channel |-> Absent, localCapabilities |-> [present |-> FALSE, caps |-> {}],
     result |-> [kind |-> "none", peerDeviceId |-> Absent]]

InitRoute == capsByPeer = <<>> /\ routeCall = NoRouteCall

UpdatePeer(d, caps) ==
    /\ capsByPeer' = updatePeer(capsByPeer, d, caps)
    /\ UNCHANGED <<routeCall, NotRouteVars>>

RemovePeer(d) ==
    /\ capsByPeer' = removePeer(capsByPeer, d)
    /\ UNCHANGED <<routeCall, NotRouteVars>>

ResolveMeshRoute(c, l) ==
    /\ routeCall' = [channel |-> c, localCapabilities |-> l,
                     result |-> resolveMeshRoute(c, capsByPeer, l)]
    /\ UNCHANGED <<capsByPeer, NotRouteVars>>

\* The registry before any call, for calls that are kept with the registry
\* they read.
InitRouteSnapshots ==
    /\ capsByPeer = <<>>
    /\ routeCall = [channel |-> Absent, localCapabilities |-> [present |-> FALSE, caps |-> {}],
                    result |-> [kind |-> "none", peerDeviceId |-> Absent],
                    snapshot |-> <<>>]

\* resolveMeshRoute, kept together with the registry content it read.
ResolveMeshRouteOnSnapshot(c, l) ==
    /\ routeCall' = [channel |-> c, localCapabilities |-> l,
                     result |-> resolveMeshRoute(c, capsByPeer, l),
                     snapshot |-> capsByPeer]
    /\ UNCHANGED <<capsByPeer, NotRouteVars>>

-----------------------------------------------------------------------------
(* handshake.ts: verifyMeshConnectAuth *)

MAX_CLOCK_DRIFT_MS == 5 * 60 * 1000

Abs(n) == IF n < 0 THEN 0 - n ELSE n

\* A check that also refuses a drift of exactly the maximum.
verifyMeshConnectAuth_Strict(now, signedAtMs, signatureValid) ==
    IF Abs(now - signedAtMs) >= MAX_CLOCK_DRIFT_MS THEN FALSE ELSE signatureValid

\* verifyMeshConnectAuth(params) at clock reading now; signatureValid is what
\* verifyDeviceSignature returns for the payload rebuilt from the params.
verifyMeshConnectAuth(now, signedAtMs, signatureValid) ==
    IF Abs(now - signedAtMs) > MAX_CLOCK_DRIFT_MS THEN FALSE ELSE signatureValid

\* Clock readings (ms, within TLC's integers) and drifts of whole minutes from
\* six in the past to six in the future, each also one millisecond off.
ClockInputs == {1000000000, 1000123456}
DriftInputs == {m * 60 * 1000 + e : m \in -6..6, e \in {-1, 0, 1}}

InitHandshake ==
    /\ hsIn \in {[now |-> n, signedAtMs |-> n - d, signatureValid |-> v] :
                    n \in ClockInputs, d \in DriftInputs, v \in BOOLEAN}
    /\ hsOut = "unverified"

\* One call of verifyMeshConnectAuth.
VerifyMeshConnectAuth ==
    /\ hsOut = "unverified"
    /\ hsOut' = IF verifyMeshConnectAuth(hsIn.now, hsIn.signedAtMs, hsIn.signatureValid)
                THEN "true" ELSE "false"
    /\ UNCHANGED <<hsIn, NotHsVars>>

\* Two key pairs: the one of the trusted peer-P, and another one.  The
\* deviceId of a key pair is the SHA-256 of its public key.
KeyPairs == {"key-P", "key-X"}
DeviceIdOfKey(k) == IF k = "key-P" THEN "peer-P" ELSE "peer-X"

\* verifyDeviceSignature(publicKey, payload, signature): the signature was
\* made over this payload with the private key of publicKey.
verifyDeviceSignature(publicKey, payload, signature) ==
    signature.key = publicKey /\ signature.payload = payload

\* buildMeshAuthPayload: "mesh.connect|v1|deviceId|signedAtMs"
buildMeshAuthPayload(deviceId, signedAtMs) == <<"mesh.connect", "v1", deviceId, signedAtMs>>

\* What a mesh.connect request (side "request", checked by the mesh.connect
\* handler of a node that trusts peer-P) or a connect response (side
\* "response", checked by the client that dialed peer-P) presents: a deviceId,
\* a public key, and a signature made with some private key over the payload
\* of some deviceId.
IdentityInputs ==
    [side : {"request", "response"}, deviceId : {"peer-P", "peer-X"}, publicKey : KeyPairs,
     signedAtMs : {1000000000, 1000000000 - 6 * 60 * 1000},
     signature : [key : KeyPairs,
                  payload : {buildMeshAuthPayload(d, t) :
                                d \in {"peer-P", "peer-X"},
                                t \in {1000000000, 1000000000 - 6 * 60 * 1000}}]]

\* A check that also derives the deviceId from the public key presented.
registersSession_BoundToKey(p, now) ==
    /\ p.deviceId = "peer-P"
    /\ DeviceIdOfKey(p.publicKey) = p.deviceId
    /\ verifyMeshConnectAuth(now, p.signedAtMs,
            verifyDeviceSignature(p.publicKey, buildMeshAuthPayload(p.deviceId, p.signedAtMs),
                                  p.signature))

\* The mesh.connect handler (isTrustedPeer, then verifyMeshConnectAuth) and
\* handleConnectResponse (deviceId === remoteDeviceId, then
\* verifyMeshConnectAuth): whether the session is registered under p.deviceId.
registersSession(p, now) ==
    /\ p.deviceId = "peer-P"
    /\ verifyMeshConnectAuth(now, p.signedAtMs,
            verifyDeviceSignature(p.publicKey, buildMeshAuthPayload(p.deviceId, p.signedAtMs),
                                  p.signature))

InitIdentity ==
    /\ hsIn \in IdentityInputs
    /\ hsOut = "unverified"

\* The request or the response is checked.
AuthenticatePeer ==
    /\ hsOut = "unverified"
    /\ hsOut' = IF registersSession(hsIn, 1000000000) THEN "registered" ELSE "rejected"
    /\ UNCHANGED <<hsIn, NotHsVars>>

-----------------------------------------------------------------------------
(* discovery.ts: MeshDiscovery *)

\* Upper bound on the number of scans whose result is processed.
MaxScans == 4

LocalDevice == "local-device"
BeaconIds == {LocalDevice, "peer-a", "peer-b", Absent}
DiscoveryIds == {LocalDevice, "peer-a", "peer-b"}

\* What discoverFn resolves with: up to two beacons, each with a deviceId
\* (its own, or the one in its TXT record) or with none.
BeaconInputs == {<<>>} \cup {<<a>> : a \in BeaconIds} \cup {<<a, b>> : a, b \in BeaconIds}

\* A scan that takes its own beacon for a peer.
skipBeacon_KeepsSelf(deviceId, localDeviceId) == deviceId = Absent

\* !deviceId || deviceId === this.localDeviceId
skipBeacon(deviceId, localDeviceId) == deviceId = Absent \/ deviceId = localDeviceId

InSeq(x, seq) == \E i \in 1..Len(seq) : seq[i] = x

\* The loop over the beacons: knownPeers, seenDeviceIds and the events emitted.
RECURSIVE scanBeacons(_, _)
scanBeacons(st, beacons) ==
    IF beacons = <<>> THEN st
    ELSE LET deviceId == Head(beacons) IN
         IF skipBeacon(deviceId, LocalDevice) THEN scanBeacons(st, Tail(beacons))
         ELSE scanBeacons(
                [known |-> IF InSeq(deviceId, st.known) THEN st.known
                           ELSE Append(st.known, deviceId),
                 seen |-> st.seen \cup {deviceId},
                 events |-> IF InSeq(deviceId, st.known) THEN st.events
                            ELSE Append(st.events, [type |-> "peer-discovered",
                                                    deviceId |-> deviceId])],
                Tail(beacons))

\* scan() after discoverFn has resolved: the beacons loop, then the loop that
\* deletes every known peer that was not seen and emits peer-lost for it.
scan(known, beacons) ==
    LET st == scanBeacons([known |-> known, seen |-> {}, events |-> <<>>], beacons)
        lost == SelectSeq(st.known, LAMBDA d : d \notin st.seen)
    IN [known |-> SelectSeq(st.known, LAMBDA d : d \in st.seen),
        events |-> st.events \o
                   [i \in 1..Len(lost) |-> [type |-> "peer-lost", deviceId |-> lost[i]]]]

\* new MeshDiscovery(opts): no peer known.  discovery records, per deviceId,
\* how many events of each kind were emitted, and by the scans' results alone
\* how many presence windows began and ended.
InitDiscovery ==
    /\ knownPeers = <<>>
    /\ discovery = [scans |-> 0, present |-> {},
                    discovered |-> [d \in DiscoveryIds |-> 0],
                    lost |-> [d \in DiscoveryIds |-> 0],
                    began |-> [d \in DiscoveryIds |-> 0],
                    ended |-> [d \in DiscoveryIds |-> 0]]

CountEvents(events, type, d) ==
    Cardinality({i \in 1..Len(events) : events[i] = [type |-> type, deviceId |-> d]})

\* One scan whose discoverFn resolved with beacons.
Scan(beacons) ==
    /\ discovery.scans < MaxScans
    /\ LET r == scan(knownPeers, beacons)
           inResult == {beacons[i] : i \in 1..Len(beacons)} \ {Absent}
       IN /\ knownPeers' = r.known
          /\ discovery' =
                [scans |-> discovery.scans + 1,
                 present |-> inResult,
                 discovered |-> [d \in DiscoveryIds |->
                    discovery.discovered[d] + CountEvents(r.events, "peer-discovered", d)],
                 lost |-> [d \in DiscoveryIds |->
                    discovery.lost[d] + CountEvents(r.events, "peer-lost", d)],
                 began |-> [d \in DiscoveryIds |->
                    discovery.began[d] +
                        (IF d \in inResult /\ d \notin discovery.present THEN 1 ELSE 0)],
                 ended |-> [d \in DiscoveryIds |->
                    discovery.ended[d] +
                        (IF d \notin inResult /\ d \in discovery.present THEN 1 ELSE 0)]]
    /\ UNCHANGED NotDiscVars

\* One scan whose discoverFn rejected: scan returns at once.
ScanFails ==
    /\ discovery.scans < MaxScans
    /\ discovery' = [discovery EXCEPT !.scans = @ + 1]
    /\ UNCHANGED <<knownPeers, NotDiscVars>>

-----------------------------------------------------------------------------
(* peer-trust.ts: the trust store shared by several processes *)

\* Upper bound on the number of store operations begun.
MaxStoreOps == 3

StoreProcesses == {"proc-1", "proc-2"}
StoreDevices == {"device-1", "device-2"}
StoreOps == {"add", "remove", "isTrusted"}

\* EMPTY_STORE = { version: 1, peers: [] }
EMPTY_STORE == <<>>

\* A process outside any store operation.  During an operation: peers is what
\* readStore returned, at stands for new Date() of the call, result is the
\* added / removed / trusted value it returns, wrote whether it called writeStore.
IdleProc ==
    [pc |-> "idle", op |-> None, deviceId |-> None, peers |-> <<>>,
     at |-> 0, result |-> None, wrote |-> FALSE]

\* peers.some((p) => p.deviceId === deviceId)
HasPeer(peers, deviceId) == \E i \in 1..Len(peers) : peers[i].deviceId = deviceId

\* An addTrustedPeer that appends without looking for the deviceId.
addDecision_AlwaysWrites(peers, deviceId) == TRUE

\* addTrustedPeer: returns { added: false } when the deviceId is listed, else writes
addDecision(peers, deviceId) == ~HasPeer(peers, deviceId)

\* removeTrustedPeer: next.length === peers.length returns { removed: false }
removeDecision(peers, deviceId) ==
    Len(SelectSeq(peers, LAMBDA e : e.deviceId # deviceId)) # Len(peers)

\* No state directory yet: the file does not exist and nobody holds the lock.
\* storeProcs also records the number of operations begun, the deviceIds a
\* removeTrustedPeer was begun for, and those an addTrustedPeer returned for.
InitStore ==
    /\ storeFile = [exists |-> FALSE, peers |-> <<>>]
    /\ storeLock = None
    /\ storeProcs = [proc |-> [p \in StoreProcesses |-> IdleProc],
                     begun |-> 0, removes |-> {}, addsReturned |-> {}]

\* A process calls addTrustedPeer, removeTrustedPeer or isTrustedPeer: withStore
BeginStoreOp(p, op, d) ==
    /\ storeProcs.proc[p].pc = "idle"
    /\ storeProcs.begun < MaxStoreOps
    /\ storeProcs' = [storeProcs EXCEPT
            !.proc[p] = [pc |-> "ensureFile", op |-> op, deviceId |-> d, peers |-> <<>>,
                         at |-> storeProcs.begun + 1, result |-> None, wrote |-> FALSE],
            !.begun = @ + 1,
            !.removes = IF op = "remove" THEN @ \cup {d} ELSE @]
    /\ UNCHANGED <<storeFile, storeLock, NotStoreVars>>

\* An ensureFile that takes the lock's read for granted and creates nothing.
ensureFileCreates_Never(exists) == FALSE

\* ensureFile: fs.promises.access(filePath) rejects when the file is missing
ensureFileCreates(exists) == ~exists

\* ensureFile, before the lock is taken: the access check.
EnsureFileAccess(p) ==
    /\ storeProcs.proc[p].pc = "ensureFile"
    /\ storeProcs' = [storeProcs EXCEPT !.proc[p].pc =
            IF ensureFileCreates(storeFile.exists) THEN "createFile" ELSE "lock"]
    /\ UNCHANGED <<storeFile, storeLock, NotStoreVars>>

\* ensureFile's catch branch: writeJsonFileAtomically(filePath, EMPTY_STORE)
EnsureFileWrite(p) ==
    /\ storeProcs.proc[p].pc = "createFile"
    /\ storeFile' = [exists |-> TRUE, peers |-> EMPTY_STORE]
    /\ storeProcs' = [storeProcs EXCEPT !.proc[p].pc = "lock"]
    /\ UNCHANGED <<storeLock, NotStoreVars>>

\* withFileLock: one holder at a time
AcquireFileLock(p) ==
    /\ storeProcs.proc[p].pc = "lock"
    /\ storeLock = None
    /\ storeLock' = p
    /\ storeProcs' = [storeProcs EXCEPT !.proc[p].pc = "read"]
    /\ UNCHANGED <<storeFile, NotStoreVars>>

\* readStore under the lock, and the decision each operation takes on it.
ReadStore(p) ==
    /\ storeProcs.proc[p].pc = "read"
    /\ LET me == storeProcs.proc[p]
           peers == IF storeFile.exists THEN storeFile.peers ELSE EMPTY_STORE
           writes == \/ me.op = "add" /\ addDecision(peers, me.deviceId)
                     \/ me.op = "remove" /\ removeDecision(peers, me.deviceId)
       IN storeProcs' = [storeProcs EXCEPT
            !.proc[p].peers = peers,
            !.proc[p].result = IF me.op = "isTrusted"
                               THEN (IF HasPeer(peers, me.deviceId) THEN "true" ELSE "false")
                               ELSE (IF writes THEN "true" ELSE "false"),
            !.proc[p].pc = IF writes THEN "write" ELSE "unlock"]
    /\ UNCHANGED <<storeFile, storeLock, NotStoreVars>>

\* writeStore under the lock: [...peers, entry] or the filtered list
WriteStore(p) ==
    /\ storeProcs.proc[p].pc = "write"
    /\ LET me == storeProcs.proc[p] IN
        storeFile' = [exists |-> TRUE,
                      peers |-> IF me.op = "add"
                                THEN Append(me.peers, [deviceId |-> me.deviceId, addedAt |-> me.at])
                                ELSE SelectSeq(me.peers, LAMBDA e : e.deviceId # me.deviceId)]
    /\ storeProcs' = [storeProcs EXCEPT !.proc[p].pc = "unlock", !.proc[p].wrote = TRUE]
    /\ UNCHANGED <<storeLock, NotStoreVars>>

\* The lock is released and the operation returns.
ReleaseFileLock(p) ==
    /\ storeProcs.proc[p].pc = "unlock"
    /\ storeLock' = None
    /\ storeProcs' = [storeProcs EXCEPT
            !.proc[p] = IdleProc,
            !.addsReturned = IF storeProcs.proc[p].op = "add"
                             THEN @ \cup {storeProcs.proc[p].deviceId} ELSE @]
    /\ UNCHANGED <<storeFile, NotStoreVars>>

-----------------------------------------------------------------------------
(* command-envelope.ts: resolveMeshForwardTrustMetadata applied to a payload *)

\* Top-level and envelope trust blocks: those of the forward inputs, and the
\* default block with two approvers in either order, with a repeated source,
\* and with an empty approver list.
ResolveTrustInputs ==
    ForwardTrustInputs \cup
    {[defaultActuationTrust EXCEPT !.approved_by = <<"operator:rohith", "operator:local-cli">>],
     [defaultActuationTrust EXCEPT !.approved_by = <<"operator:local-cli", "operator:rohith">>],
     [defaultActuationTrust EXCEPT !.evidence_sources = <<"sensor", "human", "sensor">>],
     [defaultActuationTrust EXCEPT !.approved_by = <<>>],
     [defaultActuationTrust EXCEPT !.approved_by = NoList]}

ResolveInputs ==
    [channel : {"clawmesh"}, to : {"actuator:mock:valve-1"}, originGatewayId : {"peer-jetson"},
     command : CommandInputs \cup
               {createClawMeshCommandEnvelope("cmd-1", "actuator:mock:valve-1", "open", t) :
                    t \in ResolveTrustInputs},
     trust : ResolveTrustInputs]

InitResolve == resolveIn \in ResolveInputs /\ resolveOut = [ok |-> FALSE, code |-> "none", trust |-> NoTrust]

\* One call of resolveMeshForwardTrustMetadata(payload).
Resolve ==
    /\ resolveOut.code = "none"
    /\ resolveOut' = resolveMeshForwardTrustMetadata(resolveIn)
    /\ UNCHANGED <<resolveIn, NotResolveVars>>

-----------------------------------------------------------------------------
(* peer-registry.ts: PeerRegistry *)

\* Upper bound on the number of invoke calls that draw a requestId.
MaxRpc == 3

DeviceIds == {"peer-P", "peer-Q"}
ConnIds == {"c1", "c2", "c3"}
RequestIds == 1..MaxRpc

\* What an invoke call can resolve with.
RpcOutcomes ==
    {"success", "remote-error", "NOT_CONNECTED", "SEND_FAILED", "TIMEOUT", "PEER_DISCONNECTED"}

\* new PeerRegistry(): the three maps are empty.  peersById maps a deviceId to
\* its session's connId, peersByConn a connId to a deviceId, pendingRpc a
\* requestId to the deviceId of its PendingRpc.  timers is the set of armed
\* setTimeout handles (named by requestId) and resolutions the sequence of
\* values each call's promise was resolved with.
EmptyRegistry ==
    [peersById |-> [d \in DeviceIds |-> None],
     peersByConn |-> [c \in ConnIds |-> None],
     pendingRpc |-> [id \in RequestIds |-> None],
     timers |-> {},
     resolutions |-> [id \in RequestIds |-> <<>>]]

\* An unregister that drops the session and leaves the peer's pending RPCs alone.
unregister_KeepsPending(r, connId) ==
    LET deviceId == r.peersByConn[connId] IN
    IF deviceId = None THEN r
    ELSE [r EXCEPT !.peersById[deviceId] = IF @ = connId THEN None ELSE @,
                   !.peersByConn[connId] = None]

\* unregister, with the pending RPCs of the peer failed as one loop
unregister(r, connId) ==
    LET deviceId == r.peersByConn[connId] IN
    IF deviceId = None THEN r
    ELSE LET failed == {id \in RequestIds : r.pendingRpc[id] = deviceId} IN
         [peersById |->
            IF r.peersById[deviceId] = connId
            THEN [r.peersById EXCEPT ![deviceId] = None]
            ELSE r.peersById,
          peersByConn |-> [r.peersByConn EXCEPT ![connId] = None],
          pendingRpc |-> [id \in RequestIds |->
                            IF id \in failed THEN None ELSE r.pendingRpc[id]],
          timers |-> r.timers \ failed,
          resolutions |-> [id \in RequestIds |->
                            IF id \in failed
                            THEN Append(r.resolutions[id], "PEER_DISCONNECTED")
                            ELSE r.resolutions[id]]]

\* A register that installs the new session without evicting the old one.
register_NoEvict(r, deviceId, connId) ==
    [r EXCEPT !.peersById[deviceId] = connId, !.peersByConn[connId] = deviceId]

register(r, deviceId, connId) ==
    LET existing == r.peersById[deviceId]
        evicted == IF existing # None THEN unregister(r, existing) ELSE r
    IN [evicted EXCEPT !.peersById[deviceId] = connId,
                       !.peersByConn[connId] = deviceId]

get(r, deviceId) == r.peersById[deviceId]

getByConnId(r, connId) ==
    LET deviceId == r.peersByConn[connId] IN
    IF deviceId = None THEN None ELSE r.peersById[deviceId]

listConnected(r) == {d \in DeviceIds : r.peersById[d] # None}

\* invoke up to the point where its promise is created: the call draws
\* requestId; sendThrows says whether peer.socket.send throws.
invoke(r, deviceId, requestId, sendThrows) ==
    IF r.peersById[deviceId] = None
    THEN [r EXCEPT !.resolutions[requestId] = Append(@, "NOT_CONNECTED")]
    ELSE IF sendThrows
    THEN [r EXCEPT !.resolutions[requestId] = Append(@, "SEND_FAILED")]
    ELSE [r EXCEPT !.timers = @ \cup {requestId},
                   !.pendingRpc[requestId] = deviceId]

\* const timeoutMs = params.timeoutMs ?? 30_000
invokeTimeoutMs(timeoutMs) == IF timeoutMs = Absent THEN 30000 ELSE timeoutMs

\* A timer callback that resolves the call and leaves the pending entry behind.
invokeTimeout_KeepsEntry(r, requestId) ==
    [r EXCEPT !.timers = @ \ {requestId},
              !.resolutions[requestId] = Append(@, "TIMEOUT")]

\* the setTimeout callback of invoke
invokeTimeout(r, requestId) ==
    [r EXCEPT !.pendingRpc[requestId] = None,
              !.timers = @ \ {requestId},
              !.resolutions[requestId] = Append(@, "TIMEOUT")]

\* A variant that resolves the promise but leaves the entry and its timer behind.
handleRpcResult_KeepsEntry(r, id, ok) ==
    IF r.pendingRpc[id] = None THEN r
    ELSE [r EXCEPT !.resolutions[id] =
                        Append(@, IF ok THEN "success" ELSE "remote-error")]

handleRpcResult(r, id, ok) ==
    IF r.pendingRpc[id] = None THEN r
    ELSE [r EXCEPT !.timers = @ \ {id},
                   !.pendingRpc[id] = None,
                   !.resolutions[id] =
                        Append(@, IF ok THEN "success" ELSE "remote-error")]

\* The pending RPC entries of a registry.
PendingIds(r) == {id \in RequestIds : r.pendingRpc[id] # None}

InitRegistry ==
    /\ reg = EmptyRegistry
    /\ nextRequestId = 1

Register(deviceId, connId) ==
    /\ reg' = register(reg, deviceId, connId)
    /\ UNCHANGED <<nextRequestId, NotRegVars>>

Unregister(connId) ==
    /\ reg' = unregister(reg, connId)
    /\ UNCHANGED <<nextRequestId, NotRegVars>>

Invoke(deviceId, sendThrows) ==
    /\ nextRequestId <= MaxRpc
    /\ reg' = invoke(reg, deviceId, nextRequestId, sendThrows)
    /\ nextRequestId' = nextRequestId + 1
    /\ UNCHANGED NotRegVars

\* A timer fires only while it is armed (clearTimeout cancels it).
InvokeTimeout(requestId) ==
    /\ requestId \in reg.timers
    /\ reg' = invokeTimeout(reg, requestId)
    /\ UNCHANGED <<nextRequestId, NotRegVars>>

\* A res frame arrives; its id is whatever the remote side wrote.
HandleRpcResult(id, ok) ==
    /\ reg' = handleRpcResult(reg, id, ok)
    /\ UNCHANGED <<nextRequestId, NotRegVars>>

-----------------------------------------------------------------------------
(* peer-registry.ts with the sockets of its sessions: reconnects and closes *)

\* No connection yet.  A socket is "none" (not opened), "open" or "closed";
\* a connId is drawn afresh for every connection and never names a second socket.
\* owner is the deviceId of the first session registered on each connection,
\* advertised the capabilities each deviceId's last handshake carried,
\* lastClose the last close event: its connId, and the connId of the session
\* its owner had when the event arrived; answer the code of the last
\* mesh.connect response on a socket, dialer who dialed it, and lastConnect
\* the last mesh.connect request handled.
InitSockets ==
    sockets = [state |-> [c \in ConnIds |-> "none"],
               owner |-> [c \in ConnIds |-> None],
               advertised |-> [d \in DeviceIds |-> {}],
               lastClose |-> [connId |-> None, current |-> None],
               answer |-> [c \in ConnIds |-> None],
               dialer |-> [c \in ConnIds |-> None],
               lastConnect |-> [connId |-> None, params |-> None]]

\* p.capabilities of a mesh.connect request: none, or one channel.
AdvertisedInputs == {{}, {"channel:telegram"}, {"channel:slack"}}

\* An onPeerConnected that hands every capability list to updatePeer.
onPeerConnected_Always(map, deviceId, capabilities) == updatePeer(map, deviceId, capabilities)

\* onPeerConnected: updatePeer only if session.capabilities.length > 0
onPeerConnected(map, deviceId, capabilities) ==
    IF capabilities # {} THEN updatePeer(map, deviceId, capabilities) ELSE map

\* A register that closes the socket of the session it replaces.
registerCloses_Evicted(r, deviceId, connId) ==
    {c \in ConnIds : c = r.peersById[deviceId] /\ c # connId}

\* PeerRegistry.register: the sockets it closes (it calls unregister for the
\* existing session and never socket.close()).
registerCloses(r, deviceId, connId) == {}

\* A handshake for deviceId succeeds on connection connId (the mesh.connect
\* handler on an accepted socket, handleConnectResponse on a dialed one): the
\* session is registered with that socket, then onPeerConnected runs.
SessionRegistered(deviceId, connId, capabilities) ==
    /\ sockets.state[connId] # "closed"
    /\ reg' = register(reg, deviceId, connId)
    /\ capsByPeer' = onPeerConnected(capsByPeer, deviceId, capabilities)
    /\ sockets' = [sockets EXCEPT
            !.state = [c \in ConnIds |->
                        IF c = connId THEN "open"
                        ELSE IF c \in registerCloses(reg, deviceId, connId) THEN "closed"
                        ELSE @[c]],
            !.owner[connId] = IF @ = None THEN deviceId ELSE @,
            !.advertised[deviceId] = capabilities]
    /\ UNCHANGED <<nextRequestId, NotSockVars>>

\* Upper bound on the invoke calls made while connections come and go.
MaxReconnectRpc == 1

\* An invoke whose frame the socket takes (a failing send changes no session).
InvokeOnSession(deviceId) ==
    /\ nextRequestId <= MaxReconnectRpc
    /\ Invoke(deviceId, FALSE)

\* The "close" event of an accepted socket: unregister(connId), and
\* removePeer for the deviceId it returned, if any.
SocketClosed(connId) ==
    /\ sockets.state[connId] = "open"
    /\ reg' = unregister(reg, connId)
    /\ capsByPeer' = IF reg.peersByConn[connId] # None
                     THEN removePeer(capsByPeer, reg.peersByConn[connId])
                     ELSE capsByPeer
    /\ sockets' = [sockets EXCEPT
            !.state[connId] = "closed",
            !.lastClose = [connId |-> connId,
                           current |-> IF sockets.owner[connId] = None THEN None
                                       ELSE get(reg, sockets.owner[connId])]]
    /\ UNCHANGED <<nextRequestId, NotSockVars>>

-----------------------------------------------------------------------------
(* context-propagator.ts: the mesh.connect handler of createMeshServerHandlers *)

\* Date.now() while the handshakes below are handled.
ConnectNow == 1000000000

RequiredParams == {"deviceId", "publicKey", "signature", "signedAtMs"}

\* The params of a mesh.connect request: absent as a whole, or with each
\* required field present or not; signedAtMs is 0, the present, or six
\* minutes ago; the signature verifies or does not.
NoConnectParams ==
    [present |-> FALSE, missing |-> RequiredParams, deviceId |-> "peer-P",
     signedAtMs |-> 0, signatureValid |-> FALSE, capabilities |-> {}]
ConnectInputs ==
    {NoConnectParams} \cup
    [present : {TRUE},
     missing : {{}} \cup {{f} : f \in RequiredParams},
     deviceId : DeviceIds,
     signedAtMs : {0, ConnectNow, ConnectNow - 6 * 60 * 1000},
     signatureValid : BOOLEAN,
     capabilities : {{"channel:telegram"}}]

\* !p.field
Falsy(p, field) == field \in p.missing \/ (field = "signedAtMs" /\ p.signedAtMs = 0)

\* What buildMeshConnectAuth of a MeshPeerClient puts in the request: every
\* required field, signed now.
SentByPeerClient(p) == p.present /\ p.missing = {} /\ p.signedAtMs # 0

\* A handler that looks at the signature before it looks at the trust store.
meshConnectAnswer_AuthFirst(p, peers, now) ==
    IF ~p.present \/ \E f \in RequiredParams : Falsy(p, f) THEN "INVALID_PARAMS"
    ELSE IF ~verifyMeshConnectAuth(now, p.signedAtMs, p.signatureValid) THEN "AUTH_FAILED"
    ELSE IF ~HasPeer(peers, p.deviceId) THEN "UNTRUSTED_PEER"
    ELSE "ok"

\* The checks of the mesh.connect handler in their order, with peers the
\* content of the trust store that isTrustedPeer reads.
meshConnectAnswer(p, peers, now) ==
    IF ~p.present \/ \E f \in RequiredParams : Falsy(p, f) THEN "INVALID_PARAMS"
    ELSE IF ~HasPeer(peers, p.deviceId) THEN "UNTRUSTED_PEER"
    ELSE IF ~verifyMeshConnectAuth(now, p.signedAtMs, p.signatureValid) THEN "AUTH_FAILED"
    ELSE "ok"

ConnectFailures == {"INVALID_PARAMS", "UNTRUSTED_PEER", "AUTH_FAILED"}

\* A mesh.connect request with params p arrives on the accepted socket
\* connId; byPeerClient tells whether a MeshPeerClient dialed the socket (it
\* sends one mesh.connect, when the socket opens).
\* The handler responds and returns; on success it registers the session and
\* runs onPeerConnected first.  It calls neither socket.close() nor
\* unregister on any path.
MeshConnect(connId, p, byPeerClient) ==
    /\ sockets.state[connId] # "closed"
    /\ IF byPeerClient
       THEN sockets.dialer[connId] = None /\ SentByPeerClient(p)
       ELSE sockets.dialer[connId] \in {None, "other"}
    /\ LET answer == meshConnectAnswer(p, storeFile.peers, ConnectNow) IN
       /\ reg' = IF answer = "ok" THEN register(reg, p.deviceId, connId) ELSE reg
       /\ capsByPeer' = IF answer = "ok"
                        THEN onPeerConnected(capsByPeer, p.deviceId, p.capabilities)
                        ELSE capsByPeer
       /\ sockets' = [sockets EXCEPT
               !.state[connId] = "open",
               !.owner[connId] = IF answer = "ok" /\ @ = None THEN p.deviceId ELSE @,
               !.advertised = IF answer = "ok"
                              THEN [@ EXCEPT ![p.deviceId] = p.capabilities] ELSE @,
               !.answer[connId] = answer,
               !.lastConnect = [connId |-> connId, params |-> p],
               !.dialer[connId] = IF byPeerClient THEN "MeshPeerClient" ELSE "other"]
    /\ UNCHANGED <<nextRequestId, NotSockVars>>

\* MeshPeerClient.handleMessage for a res that is not ok: ws.close(1008), and
\* with it the "close" event of the accepted socket.
PeerClientRejected(connId) ==
    /\ sockets.dialer[connId] = "MeshPeerClient"
    /\ sockets.answer[connId] \in ConnectFailures
    /\ SocketClosed(connId)

\* Any dialer may close its socket at any time.
DialerCloses(connId) ==
    /\ sockets.dialer[connId] # None
    /\ SocketClosed(connId)

-----------------------------------------------------------------------------
(* node-runtime.ts: handleInboundMessage and dispatchRpcRequest on one socket *)

\* Upper bound on the frames handled on the socket.
MaxInboundFrames == 3

\* The handler table: an object literal holding the mesh.connect, mesh.peers
\* and mesh.message.forward handlers (among others).
RegisteredMethods == {"mesh.connect", "mesh.peers", "mesh.message.forward"}
\* frame.method of the requests received: the registered methods, one that
\* nothing defines, and two names an object literal inherits.
MethodInputs == RegisteredMethods \cup {"mesh.nope", "toString", "valueOf"}

\* A lookup among the table's own entries only.
handlerOf_OwnOnly(method) ==
    IF method \in RegisteredMethods THEN "registered" ELSE "none"

\* this.handlers[frame.method]: the registered handler; for a name inherited
\* from Object.prototype the inherited function (toString returns a string
\* when called without a receiver, valueOf throws a TypeError); undefined
\* otherwise.
handlerOf(method) ==
    IF method \in RegisteredMethods THEN "registered"
    ELSE IF method = "toString" THEN "inherited-returns"
    ELSE IF method = "valueOf" THEN "inherited-throws"
    ELSE "none"

\* dispatchRpcRequest: the codes of the res frames sent for one request, in
\* order; throws tells whether a registered handler throws (it then has not
\* responded), and own is the code of its response otherwise.
dispatchRpcRequest(method, throws, own) ==
    CASE handlerOf(method) = "none" -> <<"UNKNOWN_METHOD">>
      [] handlerOf(method) = "registered" -> IF throws THEN <<"INTERNAL_ERROR">> ELSE <<own>>
      [] handlerOf(method) = "inherited-returns" -> <<>>
      [] handlerOf(method) = "inherited-throws" -> <<"INTERNAL_ERROR">>

\* An accepted socket, open, on which no mesh.connect has succeeded.  reqs
\* are the requests handled ([method, throws, own, session at the time]) by
\* id, res the res frames sent ([id, code]), ingested the number of context
\* frames ingested while the socket had no session, and onForward the number
\* of onForward calls made for it while it had none.
InitInbound ==
    inbound = [session |-> FALSE, reqs |-> <<>>, res |-> <<>>, frames |-> 0,
               ingested |-> 0, onForward |-> 0]

\* handleInboundMessage for a well-formed req frame with a fresh id.  A
\* mesh.connect whose handler responds ok has registered the session; a
\* forward whose handler responds ok has called onForward.
InboundRequest(method, throws, own) ==
    /\ inbound.frames < MaxInboundFrames
    /\ LET id == Len(inbound.reqs) + 1
           codes == dispatchRpcRequest(method, throws, own)
       IN inbound' = [inbound EXCEPT
            !.frames = @ + 1,
            !.reqs = Append(@, [method |-> method, throws |-> throws, own |-> own,
                                session |-> inbound.session]),
            !.res = @ \o [i \in 1..Len(codes) |-> [id |-> id, code |-> codes[i]]],
            !.session = @ \/ (method = "mesh.connect" /\ codes = <<"ok">>),
            !.onForward = @ + (IF /\ method = "mesh.message.forward" /\ codes = <<"ok">>
                                  /\ ~inbound.session
                               THEN 1 ELSE 0)]
    /\ UNCHANGED NotInVars

\* handleInboundMessage for a context.frame event: worldModel.ingest.
InboundContextFrame ==
    /\ inbound.frames < MaxInboundFrames
    /\ inbound' = [inbound EXCEPT
            !.frames = @ + 1,
            !.ingested = @ + (IF inbound.session THEN 0 ELSE 1)]
    /\ UNCHANGED NotInVars

-----------------------------------------------------------------------------
(* manager.ts: MeshManager.onPeerDiscovered and connectToPeer, two managers *)

\* Upper bound on the peer-discovered events each discovery emits for the
\* other manager (a peer that is lost and found again is emitted again).
MaxDiscoveries == 2

\* deviceIds as strings of UTF-16 code units; two that differ in the first
\* unit, two of which one is a prefix of the other, two that differ later.
DeviceIdStrings == {<<1>>, <<2>>, <<1, 1>>, <<1, 2>>, <<2, 1>>}

\* a > b on JavaScript strings: by code units from the left; a proper prefix
\* is the smaller.
RECURSIVE StringGreater(_, _)
StringGreater(a, b) ==
    IF a = <<>> THEN FALSE
    ELSE IF b = <<>> THEN TRUE
    ELSE IF Head(a) # Head(b) THEN Head(a) > Head(b)
    ELSE StringGreater(Tail(a), Tail(b))

\* An onPeerDiscovered without the direction rule.
leavesDialToPeer_Never(own, peer) == FALSE

\* if (this.identity.deviceId > peer.deviceId) return
leavesDialToPeer(own, peer) == StringGreater(own, peer)

Other(n) == 3 - n

\* Two managers with distinct deviceIds; each trusts the other or not.  Per
\* manager: pc of its onPeerDiscovered call ("awaitTrust" while isTrustedPeer
\* is pending), emitted counts its peer-discovered events, found tells that a
\* call for a beacon with a port has run to its end, client is its outbound
\* MeshPeerClient for the other ("none" before connectToPeer made one),
\* session the dialer of the connection that the session it holds for the other
\* runs over (0 without a session), req the mesh.connect it has in flight and
\* res the response in flight to it.
InitManagers ==
    \E a, b \in DeviceIdStrings, ta, tb \in BOOLEAN :
        /\ a # b
        /\ managers = [id |-> <<a, b>>, trusts |-> <<ta, tb>>,
                       pc |-> <<"idle", "idle">>, port |-> <<FALSE, FALSE>>,
                       emitted |-> <<0, 0>>, found |-> <<FALSE, FALSE>>,
                       client |-> <<"none", "none">>, session |-> <<0, 0>>,
                       req |-> <<FALSE, FALSE>>, res |-> <<None, None>>]

\* discovery emits "peer-discovered" with the other manager's beacon;
\* onPeerDiscovered starts and waits for isTrustedPeer.
PeerDiscovered(n, hasPort) ==
    /\ managers.pc[n] = "idle"
    /\ managers.emitted[n] < MaxDiscoveries
    /\ managers' = [managers EXCEPT !.pc[n] = "awaitTrust", !.port[n] = hasPort,
                                    !.emitted[n] = @ + 1]
    /\ UNCHANGED NotTieVars

\* The rest of onPeerDiscovered and the connectToPeer it may call.
OnPeerDiscovered(n) ==
    /\ managers.pc[n] = "awaitTrust"
    /\ LET m == Other(n)
           dials == /\ managers.trusts[n]
                    /\ managers.session[n] = 0
                    /\ ~leavesDialToPeer(managers.id[n], managers.id[m])
                    /\ managers.port[n]
                    /\ managers.client[n] = "none"
       IN managers' = [managers EXCEPT
               !.pc[n] = "idle",
               !.found[n] = @ \/ managers.port[n],
               !.client[n] = IF dials THEN "connecting" ELSE @]
    /\ UNCHANGED NotTieVars

\* MeshPeerClient: the socket opens, sendMeshConnect.
PeerClientOpen(n) ==
    /\ managers.client[n] = "connecting"
    /\ managers' = [managers EXCEPT !.client[n] = "sent", !.req[n] = TRUE]
    /\ UNCHANGED NotTieVars

\* The mesh.connect handler of manager m for the request of the other: the
\* session is registered over the connection the other dialed.
ManagerMeshConnect(m) ==
    /\ managers.req[Other(m)]
    /\ managers' = [managers EXCEPT
            !.req[Other(m)] = FALSE,
            !.session[m] = IF managers.trusts[m] THEN Other(m) ELSE @,
            !.res[Other(m)] = IF managers.trusts[m] THEN "ok" ELSE "UNTRUSTED_PEER"]
    /\ UNCHANGED NotTieVars

\* MeshPeerClient.handleMessage: handleConnectResponse registers the session
\* over the connection this client dialed; a refusal closes the socket, and
\* the close handler unregisters that connection's session.
PeerClientMessage(n) ==
    /\ managers.res[n] # None
    /\ managers' = [managers EXCEPT
            !.res[n] = None,
            !.client[n] = IF managers.res[n] = "ok" THEN "connected" ELSE "closed",
            !.session[n] = IF managers.res[n] = "ok" THEN n
                           ELSE IF @ = n THEN 0 ELSE @]
    /\ UNCHANGED NotTieVars

\* scheduleReconnect's timer: start() dials again.
PeerClientReconnect(n) ==
    /\ managers.client[n] = "closed"
    /\ managers' = [managers EXCEPT !.client[n] = "connecting"]
    /\ UNCHANGED NotTieVars

-----------------------------------------------------------------------------
(* world-model.ts: WorldModel; node-runtime.ts: context.frame events *)

\* opts.maxHistory of the world model under check (the runtime passes 1000).
MaxHistory == 2
\* Upper bound on the number of context.frame events handled.
MaxArrivals == 8

FrameIds == 1..(2 * MaxHistory + 1)

\* The frame that carries a frameId: observations with zone and metric,
\* observations without a metric, and events, all from one source.
FrameOf(id) ==
    [frameId |-> id,
     sourceDeviceId |-> "peer-jetson",
     kind |-> IF id % 3 = 0 THEN "event" ELSE "observation",
     data |-> [zone |-> "zone-1",
               metric |-> IF id % 3 = 1 THEN "moisture" ELSE Absent,
               value |-> id % 2]]

\* A key of source and kind alone.
makeKey_SourceKind(frame) ==
    [sourceDeviceId |-> frame.sourceDeviceId, kind |-> frame.kind,
     zone |-> Absent, metric |-> Absent, value |-> Absent]

\* The composite key: source, kind and zone+metric for an observation that
\* has both, source, kind and the whole data otherwise.
makeKey(frame) ==
    IF frame.kind = "observation" /\ frame.data.zone # Absent /\ frame.data.metric # Absent
    THEN [sourceDeviceId |-> frame.sourceDeviceId, kind |-> frame.kind,
          zone |-> frame.data.zone, metric |-> frame.data.metric, value |-> Absent]
    ELSE [sourceDeviceId |-> frame.sourceDeviceId, kind |-> frame.kind,
          zone |-> frame.data.zone, metric |-> frame.data.metric,
          value |-> IF frame.data.value = 0 THEN "0" ELSE "1"]

Keys == {makeKey(FrameOf(id)) : id \in FrameIds}

\* new WorldModel(opts): an entry with updateCount 0 is a key not in the map.
EmptyWorldModel ==
    [entries |-> [k \in Keys |-> [lastFrame |-> 0, updateCount |-> 0]],
     frameLog |-> <<>>,
     seenFrameIds |-> {}]

\* frameLog.slice(-maxHistory)
SliceLast(log, n) ==
    IF Len(log) > n THEN SubSeq(log, Len(log) - n + 1, Len(log)) ELSE log

\* The size of seenFrameIds above which it is rebuilt from frameLog.
SeenLimit_Half(maxHistory) == maxHistory

SeenLimit(maxHistory) == maxHistory * 2

\* A rebuilt seen-set that forgets the oldest frame of the ring buffer.
idsToKeep_Tail(log) == {log[i].frameId : i \in 2..Len(log)}

\* new Set(this.frameLog.map((f) => f.frameId))
idsToKeep(log) == {log[i].frameId : i \in 1..Len(log)}

\* ingest: the model after the call and the value returned
ingest(w, frame, maxHistory) ==
    IF frame.frameId \in w.seenFrameIds
    THEN [w |-> w, new |-> FALSE]
    ELSE LET key == makeKey(frame)
             seen == w.seenFrameIds \cup {frame.frameId}
             log == SliceLast(Append(w.frameLog, frame), maxHistory)
         IN [w |-> [entries |-> [w.entries EXCEPT ![key] =
                                    [lastFrame |-> frame.frameId,
                                     updateCount |-> @.updateCount + 1]],
                    frameLog |-> log,
                    seenFrameIds |->
                        IF Cardinality(seen) > SeenLimit(maxHistory)
                        THEN idsToKeep(log)
                        ELSE seen],
             new |-> TRUE]

InitWorld ==
    /\ world = EmptyWorldModel
    /\ ingestTrue = [id \in FrameIds |-> 0]
    /\ arrivals = 0
    /\ lastIngest = [frameId |-> 0, new |-> FALSE, wasInLog |-> FALSE, trims |-> 0]

\* handleInboundMessage on a context.frame event: the payload goes to ingest.
ContextFrameEvent(id) ==
    /\ arrivals < MaxArrivals
    /\ LET r == ingest(world, FrameOf(id), MaxHistory) IN
        /\ world' = r.w
        /\ ingestTrue' = [ingestTrue EXCEPT ![id] = @ + (IF r.new THEN 1 ELSE 0)]
        /\ lastIngest' =
            [frameId |-> id, new |-> r.new,
             wasInLog |-> \E i \in 1..Len(world.frameLog) : world.frameLog[i].frameId = id,
             trims |-> lastIngest.trims +
                (IF r.new /\ Cardinality(world.seenFrameIds) + 1 > SeenLimit(MaxHistory)
                 THEN 1 ELSE 0)]
    /\ arrivals' = arrivals + 1
    /\ UNCHANGED NotWorldVars

\* The frames that reach the two world models below: two observations of
\* one zone and metric, an observation without a metric, and an event.
ReplicaFrameIds == {1, 2, 3, 4}
\* The limits getRecentFrames is called with.
LimitInputs == 0..(MaxHistory + 1)

\* A getRecentFrames that returns nothing for a limit of zero.
getRecentFrames_ZeroIsEmpty(log, limit) == IF limit = 0 THEN <<>> ELSE SliceLast(log, limit)

\* getRecentFrames(limit): this.frameLog.slice(-limit); -0 is 0 and
\* slice(0) is the whole array.
getRecentFrames(log, limit) == IF limit = 0 THEN log ELSE SliceLast(log, limit)

\* Two world models with the same maxHistory; ingested is, per model, every
\* frameId for which ingest returned true, in that order; recent the last
\* getRecentFrames call (on which model, its limit, the frameLog it read and
\* what it returned).
InitReplicas ==
    replicas = [w |-> <<EmptyWorldModel, EmptyWorldModel>>,
                ingested |-> <<<<>>, <<>>>>,
                recent |-> [of |-> 0, limit |-> 0, log |-> <<>>, frames |-> <<>>]]

\* A context.frame event reaches world model r.
ReplicaIngest(r, id) ==
    /\ LET res == ingest(replicas.w[r], FrameOf(id), MaxHistory) IN
        replicas' = [replicas EXCEPT
            !.w[r] = res.w,
            !.ingested[r] = IF res.new THEN Append(@, id) ELSE @]
    /\ UNCHANGED NotRepVars

\* getRecentFrames(limit) on world model r.
GetRecentFrames(r, limit) ==
    /\ replicas' = [replicas EXCEPT
            !.recent = [of |-> r, limit |-> limit, log |-> replicas.w[r].frameLog,
                        frames |-> getRecentFrames(replicas.w[r].frameLog, limit)]]
    /\ UNCHANGED NotRepVars

-----------------------------------------------------------------------------
(* context-propagator.ts, peer-registry.ts broadcastEvent, node-runtime.ts  *)
(* and peer-client.ts: context frames between three runtimes in a line      *)

\* Upper bound on the number of frames the runtimes broadcast.
MaxBroadcasts == 2

GossipA == "node-A"
GossipB == "node-B"
GossipC == "node-C"
GossipNodes == {GossipA, GossipB, GossipC}
\* A and C are not directly connected.
GossipLinks == {{GossipA, GossipB}, {GossipB, GossipC}}
GossipFrameIds == 1..MaxBroadcasts

\* broadcastObservation -> broadcast: the full frame (frameId a fresh uuid,
\* sourceDeviceId the broadcaster's; broadcast sets no hops field).
broadcastObservation(n, id) ==
    [frameId |-> id, sourceDeviceId |-> n, kind |-> "observation", hops |-> Absent,
     data |-> [zone |-> "zone-1", metric |-> "moisture", value |-> id % 2]]

EmptyGossipWorld ==
    [entries |-> [k \in {makeKey(broadcastObservation(n, id)) :
                            n \in GossipNodes, id \in GossipFrameIds} |->
                    [lastFrame |-> 0, updateCount |-> 0]],
     frameLog |-> <<>>,
     seenFrameIds |-> {}]

InitGossip ==
    /\ gossipNodes = [n \in GossipNodes |->
                        [peersById |-> {}, worldModel |-> EmptyGossipWorld,
                         ingested |-> [id \in GossipFrameIds |-> 0]]]
    /\ gossipNet = [dialed |-> {}, wire |-> [p \in GossipNodes \X GossipNodes |-> <<>>],
                    nextFrameId |-> 1, broadcasts |-> {}, emitted |-> {}]

\* x dialed y and the mesh.connect handshake completed: each side registered
\* the other (MeshPeerClient.handleConnectResponse, the mesh.connect handler).
PeerConnected(x, y) ==
    /\ {x, y} \in GossipLinks /\ x # y
    /\ <<x, y>> \notin gossipNet.dialed /\ <<y, x>> \notin gossipNet.dialed
    /\ gossipNet' = [gossipNet EXCEPT !.dialed = @ \cup {<<x, y>>}]
    /\ gossipNodes' = [gossipNodes EXCEPT ![x].peersById = @ \cup {y},
                                          ![y].peersById = @ \cup {x}]
    /\ UNCHANGED NotGossipVars

\* contextPropagator.broadcastObservation on n: peerRegistry.broadcastEvent
\* sends the event frame on the socket of every session in peersById.
BroadcastObservation(n) ==
    /\ gossipNet.nextFrameId <= MaxBroadcasts
    /\ LET id == gossipNet.nextFrameId
           frame == broadcastObservation(n, id) IN
        gossipNet' = [gossipNet EXCEPT
            !.wire = [p \in GossipNodes \X GossipNodes |->
                        IF p[1] = n /\ p[2] \in gossipNodes[n].peersById
                        THEN Append(@[p], frame) ELSE @[p]],
            !.nextFrameId = id + 1,
            !.broadcasts = @ \cup {[frameId |-> id, source |-> n, dialed |-> gossipNet.dialed]},
            !.emitted = @ \cup {[from |-> n, to |-> q, frameId |-> id, hops |-> frame.hops] :
                                    q \in gossipNodes[n].peersById}]
    /\ UNCHANGED <<gossipNodes, NotGossipVars>>

\* The socket of y delivers the next frame x sent. On a connection y accepted
\* this is handleInboundMessage (a context.frame event goes to
\* worldModel.ingest and nowhere else); on a connection y dialed it is
\* MeshPeerClient.handleMessage, which has no branch for type "event".
SocketMessage(x, y) ==
    /\ gossipNet.wire[<<x, y>>] # <<>>
    /\ LET frame == Head(gossipNet.wire[<<x, y>>])
           r == ingest(gossipNodes[y].worldModel, frame, MaxHistory) IN
        /\ gossipNet' = [gossipNet EXCEPT !.wire[<<x, y>>] = Tail(@)]
        /\ gossipNodes' =
            IF <<x, y>> \in gossipNet.dialed
            THEN [gossipNodes EXCEPT
                    ![y].worldModel = r.w,
                    ![y].ingested[frame.frameId] = @ + (IF r.new THEN 1 ELSE 0)]
            ELSE gossipNodes
    /\ UNCHANGED NotGossipVars

-----------------------------------------------------------------------------
(* node-runtime.ts, peer-client.ts, peer-server.ts, peer-trust.ts,          *)
(* forwarding.ts, mock-actuator.ts: node A dials node B                      *)

\* The deviceIds of the two runtimes, and the connIds of their successive
\* connections (A's client and B's server each draw a fresh id per connection).
NodeA == "peer-P"
NodeB == "peer-Q"
ConnSeq == <<"c1", "c2", "c3">>
\* Upper bounds on the connections A's client opens and on the forwards A invokes.
MaxConns == 2
MaxForwards == 2

ValveRef == "actuator:mock:valve-1"
ActuatorRefs == {ValveRef}
Operations == {"open", "close"}

\* sendMeshConnect: the mesh.connect request; authValid is what
\* verifyMeshConnectAuth will find for the signature and signedAtMs it carries.
ConnectReq(deviceId, authValid) ==
    [type |-> "req", id |-> 0, method |-> "mesh.connect",
     params |-> [deviceId |-> deviceId, authValid |-> authValid]]

\* PeerRegistry.invoke: the request frame of a forward
ForwardReq(requestId, payload) ==
    [type |-> "req", id |-> requestId, method |-> "mesh.message.forward", params |-> payload]

\* dispatchRpcRequest.respond: the response frame.  A mesh.connect result
\* carries the responder's deviceId and signature, a forward result a
\* messageId and no deviceId, an error a code.
ResFrame(id, ok, deviceId, authValid, code) ==
    [type |-> "res", id |-> id, ok |-> ok,
     payload |-> [deviceId |-> deviceId, authValid |-> authValid],
     code |-> code]

\* MockActuatorController.deriveStatus for the operations in use
deriveStatus(opName) ==
    IF opName \in {"open", "start", "on", "enable"} THEN "active"
    ELSE IF opName \in {"close", "stop", "off", "disable"} THEN "inactive"
    ELSE "command"

\* new MockActuatorController(): no record for any target
NoActuatorRecord == [status |-> None, lastOperation |-> None, lastCommandId |-> None]

\* MockActuatorController.handleForward: the state map after the call
handleForward(state, payload) ==
    IF payload.channel # "clawmesh" THEN state
    ELSE IF ~payload.command.present THEN state
    ELSE IF payload.command.target_ref \notin ActuatorRefs THEN state
    ELSE [state EXCEPT ![payload.command.target_ref] =
            [status |-> deriveStatus(payload.command.operation_name),
             lastOperation |-> payload.command.operation_name,
             lastCommandId |-> payload.command.commandId]]

\* forwardMessageToPeer: the payload built from sendMockActuation's draft
ForwardPayload(targetRef, operation, trust) ==
    LET command == createClawMeshCommandEnvelope("command-uuid", targetRef, operation, trust) IN
    [channel |-> "clawmesh", to |-> targetRef, originGatewayId |-> NodeA,
     command |-> command, trust |-> command.trust]

\* The trust blocks handed to sendMockActuation.
ActuationTrusts == {defaultActuationTrust, buildLlmOnlyActuationTrust}

\* No sendMockActuation call behind a requestId.
NoCall == [trust |-> NoTrust, operation |-> None]

\* Node A after construction: nothing registered, no client started.
\*   client.ws    the client's socket: "none", "connecting", "open", "closing",
\*                "detached" (closing after stop() set this.ws to null) and
\*                "stopped" (no socket, and stop() was called)
\*   returned     what sendMockActuation returned when the sender-side check refused
\*   issued       the call (trust, operation) behind each requestId handed to invoke
\*   transmitted  the requestIds whose frame was written to the socket
\*   answered     the requestIds for which the client received an ok response
\*                while the call was pending
\*   rejected     the requestIds for which the client received a response that
\*                is not ok while the call was pending
InitNodeA ==
    [reg |-> EmptyRegistry, nextRequestId |-> 1,
     client |-> [ws |-> "none", connId |-> None],
     returned |-> {}, issued |-> [id \in RequestIds |-> NoCall],
     transmitted |-> {}, answered |-> {}, rejected |-> {}]

\* Node B after construction, with A in its trust store.
\*   inbound      the accepted socket and its connId
\*   connecting   the mesh.connect handlers waiting on isTrustedPeer's result
\*   accepted     for each handshake that registered a session: whether ok was
\*                replied, and whether the deviceId was in the trust store at
\*                the moment of the registration
\*   applied      what the actuator recorded for each requestId it applied
\*   refused      the error code of the response to each forward it refused
InitNodeB ==
    [reg |-> EmptyRegistry, trusted |-> {NodeA},
     inbound |-> [state |-> "none", connId |-> None],
     connecting |-> {},
     actuator |-> [t \in ActuatorRefs |-> NoActuatorRecord],
     accepted |-> {},
     applied |-> [id \in RequestIds |-> NoActuatorRecord],
     refused |-> [id \in RequestIds |-> None]]

InitNet == [ab |-> <<>>, ba |-> <<>>, conns |-> 0]

InitMesh ==
    /\ nodeA = InitNodeA
    /\ nodeB = InitNodeB
    /\ net = InitNet

\* ws.close(1008, ...) on the client's socket
CloseClientSocket(a) ==
    [a EXCEPT !.client.ws = IF @ = "open" THEN "closing" ELSE @]

\* MeshPeerClient.handleConnectResponse
handleConnectResponse(a, result) ==
    IF result.deviceId = Absent THEN CloseClientSocket(a)
    ELSE IF result.deviceId # NodeB THEN CloseClientSocket(a)
    ELSE IF ~result.authValid THEN CloseClientSocket(a)
    ELSE [a EXCEPT !.reg = register(@, result.deviceId, a.client.connId)]

\* MeshPeerClient.handleMessage: every ok response goes to
\* handleConnectResponse, every other response closes the socket; the branch
\* that calls peerRegistry.handleRpcResult comes after both and is never taken.
handleMessage(a, f) ==
    IF f.type = "res" /\ f.ok THEN handleConnectResponse(a, f.payload)
    ELSE IF f.type = "res" /\ ~f.ok THEN CloseClientSocket(a)
    ELSE IF f.type = "req" THEN a
    ELSE IF f.type = "res" THEN [a EXCEPT !.reg = handleRpcResult(@, f.id, f.ok)]
    ELSE a

\* connectToPeer / scheduleReconnect: client.start() opens a socket with a
\* fresh connId, and B's "connection" callback draws the connId of its side.
Start ==
    /\ nodeA.client.ws = "none"
    /\ net.conns < MaxConns /\ net.conns < Len(ConnSeq)
    /\ nodeA' = [nodeA EXCEPT !.client = [ws |-> "connecting", connId |-> ConnSeq[net.conns + 1]]]
    /\ nodeB' = [nodeB EXCEPT !.inbound = [state |-> "open", connId |-> ConnSeq[net.conns + 1]]]
    /\ net' = [ab |-> <<>>, ba |-> <<>>, conns |-> net.conns + 1]
    /\ UNCHANGED NotMeshVars

\* The client's "open" event: sendMeshConnect.
ClientOpen(authValid) ==
    /\ nodeA.client.ws = "connecting"
    /\ nodeA' = [nodeA EXCEPT !.client.ws = "open"]
    /\ net' = [net EXCEPT !.ab = Append(@, ConnectReq(NodeA, authValid))]
    /\ UNCHANGED <<nodeB, NotMeshVars>>

\* The client's "message" event.
ClientMessage ==
    /\ nodeA.client.ws \in {"open", "closing", "detached"}
    /\ net.ba # <<>>
    /\ LET f == Head(net.ba)
           noted == IF f.type = "res" /\ f.ok /\ f.id \in PendingIds(nodeA.reg)
                    THEN [nodeA EXCEPT !.answered = @ \cup {f.id}]
                    ELSE IF f.type = "res" /\ ~f.ok /\ f.id \in PendingIds(nodeA.reg)
                    THEN [nodeA EXCEPT !.rejected = @ \cup {f.id}]
                    ELSE nodeA
       IN nodeA' = handleMessage(noted, f)
    /\ net' = [net EXCEPT !.ba = Tail(@)]
    /\ UNCHANGED <<nodeB, NotMeshVars>>

\* A close handler that unregisters whether or not this.ws is still set.
closeHandlerUnregisters_Always(ws) == TRUE

\* The close handler's test `if (ws)` on the value this.ws had: stop() has
\* set it to null ("detached") before the event is delivered.
closeHandlerUnregisters(ws) == ws # "detached"

\* The client's "close" event, after B's side has closed and everything B
\* sent has been delivered: unregister(this.connId) if this.ws was set, then
\* scheduleReconnect, which does nothing once stop() was called.
ClientClose ==
    /\ nodeA.client.ws \in {"closing", "detached"}
    /\ nodeB.inbound.state # "open"
    /\ net.ba = <<>>
    /\ nodeA' = [nodeA EXCEPT
            !.reg = IF closeHandlerUnregisters(nodeA.client.ws)
                    THEN unregister(@, nodeA.client.connId) ELSE @,
            !.client = IF nodeA.client.ws = "detached"
                       THEN [ws |-> "stopped", connId |-> nodeA.client.connId]
                       ELSE [ws |-> "none", connId |-> None]]
    /\ UNCHANGED <<nodeB, net, NotMeshVars>>

\* MeshPeerClient.stop(), also called by the runtime's stop() for every
\* outbound client: closed = true, ws.close(), this.ws = null.  The socket
\* goes on closing with this.ws already null ("detached"); without a socket
\* the client is just stopped.
ClientStop ==
    /\ nodeA.client.ws \in {"none", "connecting", "open", "closing"}
    /\ nodeA' = [nodeA EXCEPT !.client.ws = IF @ = "none" THEN "stopped" ELSE "detached"]
    /\ UNCHANGED <<nodeB, net, NotMeshVars>>

\* sendMockActuation(params) on node A towards node B.  The client's socket
\* is never CONNECTING once a session exists, so socket.send does not throw;
\* on a socket that is closing the frame is dropped.
SendMockActuation(trust, operation) ==
    LET decision == SenderTrustDecision(trust) IN
    IF decision # "ok"
    THEN /\ nodeA' = [nodeA EXCEPT !.returned =
                        @ \cup {[trust |-> trust, operation |-> operation, error |-> decision]}]
         /\ UNCHANGED <<nodeB, net, NotMeshVars>>
    ELSE /\ nodeA.nextRequestId <= MaxForwards /\ nodeA.nextRequestId <= MaxRpc
         /\ LET id == nodeA.nextRequestId
                sent == get(nodeA.reg, NodeB) # None /\ nodeA.client.ws = "open"
            IN /\ nodeA' = [nodeA EXCEPT
                              !.reg = invoke(@, NodeB, id, FALSE),
                              !.nextRequestId = id + 1,
                              !.issued[id] = [trust |-> trust, operation |-> operation],
                              !.transmitted = IF sent THEN @ \cup {id} ELSE @]
               /\ net' = IF sent
                         THEN [net EXCEPT !.ab =
                                 Append(@, ForwardReq(id, ForwardPayload(ValveRef, operation, trust)))]
                         ELSE net
         /\ UNCHANGED <<nodeB, NotMeshVars>>

\* The message of the error object behind each failure code (peer-registry.ts
\* invoke and unregister, forward.ts).
ErrorMessage(code) ==
    CASE code = "NOT_CONNECTED" -> "peer not connected"
      [] code = "SEND_FAILED" -> "failed to send to peer"
      [] code = "TIMEOUT" -> "peer RPC timed out"
      [] code = "PEER_DISCONNECTED" -> "peer disconnected (mesh.message.forward)"
      [] code = "INVALID_PARAMS" -> "missing required forward params (channel, to, originGatewayId)"
      [] code = "LOOP_DETECTED" -> "message originated from this gateway; rejecting to prevent loop"
      [] OTHER -> Absent

\* forwardMessageToPeer's return value for the result invoke resolved with:
\* {ok: true, messageId} or {ok: false, error: result.error?.message ??
\* "mesh forward failed"}.  remoteCode is the code of the peer's error response.
ForwardResult(outcome, remoteCode) ==
    IF outcome = "success" THEN [ok |-> TRUE, error |-> Absent]
    ELSE LET message == IF outcome = "remote-error" THEN ErrorMessage(remoteCode)
                        ELSE ErrorMessage(outcome)
         IN [ok |-> FALSE,
             error |-> IF message = Absent THEN "mesh forward failed" ELSE message]

\* forwardMessageToPeer(params) on node A towards node B with the caller's
\* originGatewayId: no sender-side check, the payload goes to invoke.
ForwardMessageToPeer(origin) ==
    /\ nodeA.nextRequestId <= MaxForwards /\ nodeA.nextRequestId <= MaxRpc
    /\ LET id == nodeA.nextRequestId
           sent == get(nodeA.reg, NodeB) # None /\ nodeA.client.ws = "open"
           payload == [ForwardPayload(ValveRef, "open", defaultActuationTrust)
                          EXCEPT !.originGatewayId = origin]
       IN /\ nodeA' = [nodeA EXCEPT
                         !.reg = invoke(@, NodeB, id, FALSE),
                         !.nextRequestId = id + 1,
                         !.issued[id] = [trust |-> defaultActuationTrust, operation |-> "open"],
                         !.transmitted = IF sent THEN @ \cup {id} ELSE @]
          /\ net' = IF sent THEN [net EXCEPT !.ab = Append(@, ForwardReq(id, payload))] ELSE net
    /\ UNCHANGED <<nodeB, NotMeshVars>>

\* The targets given to the agent tool: an actuator and a sensor.
ToolTargetRefs == {ValveRef, "sensor:moisture:zone-1"}

\* A tool trust block that claims verified human evidence.
toolTrust_Verified(targetRef) == defaultActuationTrust

\* execute_mesh_command: isActuation = targetRef.startsWith("actuator:"), and
\* the trust block built for either case (the LLM is the only source).
toolTrust(targetRef) ==
    IF targetRef \in ActuatorRefs
    THEN Trust("actuation", T0, T2, "human", "false", <<"llm">>, NoList)
    ELSE Trust("observation", T0, T0, "none", Absent, <<"llm">>, NoList)

\* The agent tool execute_mesh_command on node A.  found is whether the
\* capability registry names a peer for the target (any answer is allowed
\* here whatever the session state); the call then runs sendMockActuation
\* with the tool's trust block, and its broadcastInference changes no
\* actuator.
ExecuteMeshCommand(targetRef, operation, found) ==
    LET trust == toolTrust(targetRef)
        decision == SenderTrustDecision(trust) IN
    IF ~found
    THEN UNCHANGED vars
    ELSE IF decision # "ok"
    THEN /\ nodeA' = [nodeA EXCEPT !.returned =
                        @ \cup {[trust |-> trust, operation |-> operation, error |-> decision]}]
         /\ UNCHANGED <<nodeB, net, NotMeshVars>>
    ELSE /\ nodeA.nextRequestId <= MaxForwards /\ nodeA.nextRequestId <= MaxRpc
         /\ LET id == nodeA.nextRequestId
                sent == get(nodeA.reg, NodeB) # None /\ nodeA.client.ws = "open"
            IN /\ nodeA' = [nodeA EXCEPT
                              !.reg = invoke(@, NodeB, id, FALSE),
                              !.nextRequestId = id + 1,
                              !.issued[id] = [trust |-> trust, operation |-> operation],
                              !.transmitted = IF sent THEN @ \cup {id} ELSE @]
               /\ net' = IF sent
                         THEN [net EXCEPT !.ab =
                                 Append(@, ForwardReq(id, ForwardPayload(targetRef, operation, trust)))]
                         ELSE net
         /\ UNCHANGED <<nodeB, NotMeshVars>>

\* The timer of a pending forward fires on node A.
ForwardTimeout(requestId) ==
    /\ requestId \in nodeA.reg.timers
    /\ nodeA' = [nodeA EXCEPT !.reg = invokeTimeout(@, requestId)]
    /\ UNCHANGED <<nodeB, net, NotMeshVars>>

\* respond(...) of dispatchRpcRequest for a request that arrived on connId:
\* the frame is sent only while that socket is open.
Respond(connId, frame) ==
    IF nodeB.inbound.connId = connId /\ nodeB.inbound.state = "open"
    THEN [net EXCEPT !.ba = Append(@, frame)]
    ELSE net

\* B's "message" event: handleInboundMessage and dispatchRpcRequest.  A's
\* client always fills in the required mesh.connect params, so INVALID_PARAMS
\* is not among the answers.  A
\* mesh.connect handler that finds the peer trusted waits for isTrustedPeer's
\* promise and continues in MeshConnectFinish; the forward handler and the
\* actuator run to the response without waiting on anything.
ServerMessage ==
    /\ nodeB.inbound.state = "open"
    /\ net.ab # <<>>
    /\ LET f == Head(net.ab)
           rest == [net EXCEPT !.ab = Tail(@)]
       IN IF f.type = "res"
          THEN /\ nodeB' = [nodeB EXCEPT !.reg = handleRpcResult(@, f.id, f.ok)]
               /\ net' = rest
          ELSE IF f.method = "mesh.connect"
          THEN IF f.params.deviceId \notin nodeB.trusted
               THEN /\ net' = [rest EXCEPT !.ba =
                                 Append(@, ResFrame(f.id, FALSE, Absent, FALSE, "UNTRUSTED_PEER"))]
                    /\ nodeB' = nodeB
               ELSE /\ net' = rest
                    /\ nodeB' = [nodeB EXCEPT !.connecting = @ \cup
                                    {[deviceId |-> f.params.deviceId,
                                      authValid |-> f.params.authValid,
                                      connId |-> nodeB.inbound.connId]}]
          ELSE LET r == MeshMessageForward(f.params, NodeB, FALSE)
                   actuator == IF r.invoked THEN handleForward(nodeB.actuator, f.params)
                               ELSE nodeB.actuator
               IN /\ nodeB' = [nodeB EXCEPT
                                 !.actuator = actuator,
                                 !.applied[f.id] =
                                    IF r.invoked /\ f.params.to \in ActuatorRefs
                                    THEN actuator[f.params.to] ELSE @,
                                 !.refused[f.id] = IF r.code # "ok" THEN r.code ELSE @]
                  /\ net' = [rest EXCEPT !.ba =
                               Append(@, ResFrame(f.id, r.code = "ok", Absent, FALSE, r.code))]
    /\ UNCHANGED <<nodeA, NotMeshVars>>

\* PeerRegistry.invoke: the request frame of an actuator state query
StateReq(requestId) ==
    [type |-> "req", id |-> requestId, method |-> "clawmesh.mock.actuator.state",
     params |-> [targetRef |-> ValveRef]]

\* randomUUID(): the requestIds a registry has not used yet
UnusedIds(r) == {id \in RequestIds : r.pendingRpc[id] = None /\ r.resolutions[id] = <<>>}

\* queryPeerMockActuatorState({peerDeviceId: A}) on node B, the accepting side:
\* invoke sends the request on the socket of A's session.
QueryPeerMockActuatorState ==
    /\ UnusedIds(nodeB.reg) # {}
    /\ Cardinality(RequestIds \ UnusedIds(nodeB.reg)) < MaxForwards
    /\ LET id == CHOOSE i \in UnusedIds(nodeB.reg) : \A j \in UnusedIds(nodeB.reg) : i <= j
           sent == /\ get(nodeB.reg, NodeA) # None
                   /\ get(nodeB.reg, NodeA) = nodeB.inbound.connId
                   /\ nodeB.inbound.state = "open"
       IN /\ nodeB' = [nodeB EXCEPT !.reg = invoke(@, NodeA, id, FALSE)]
          /\ net' = IF sent THEN [net EXCEPT !.ba = Append(@, StateReq(id))] ELSE net
    /\ UNCHANGED <<nodeA, NotMeshVars>>

\* The timer of a pending query fires on node B.
QueryTimeout(requestId) ==
    /\ requestId \in nodeB.reg.timers
    /\ nodeB' = [nodeB EXCEPT !.reg = invokeTimeout(@, requestId)]
    /\ UNCHANGED <<nodeA, net, NotMeshVars>>

\* The rest of the mesh.connect handler, once isTrustedPeer has resolved
\* true: verifyMeshConnectAuth, register, respond.  ourAuthValid is what the
\* client will find for the signature of the response.
MeshConnectFinish(h, ourAuthValid) ==
    /\ h \in nodeB.connecting
    /\ IF ~h.authValid
       THEN /\ nodeB' = [nodeB EXCEPT !.connecting = @ \ {h}]
            /\ net' = Respond(h.connId, ResFrame(0, FALSE, Absent, FALSE, "AUTH_FAILED"))
       ELSE /\ nodeB' = [nodeB EXCEPT
                           !.connecting = @ \ {h},
                           !.reg = register(@, h.deviceId, h.connId),
                           !.accepted = @ \cup
                              {[deviceId |-> h.deviceId,
                                replied |-> Respond(h.connId, ResFrame(0, TRUE, NodeB, ourAuthValid, "ok")) # net,
                                trusted |-> h.deviceId \in nodeB.trusted]}]
            /\ net' = Respond(h.connId, ResFrame(0, TRUE, NodeB, ourAuthValid, "ok"))
    /\ UNCHANGED <<nodeA, NotMeshVars>>

\* B's socket "close" event, once A has closed and everything A sent has
\* been handled: unregister(connId).
ServerClose ==
    /\ nodeB.inbound.state = "open"
    /\ nodeA.client.ws \in {"closing", "detached"}
    /\ net.ab = <<>>
    /\ nodeB' = [nodeB EXCEPT !.reg = unregister(@, nodeB.inbound.connId),
                              !.inbound.state = "closed"]
    /\ UNCHANGED <<nodeA, net, NotMeshVars>>

\* removeTrustedPeer / addTrustedPeer on B's trust store, each under the
\* store's file lock, from the CLI or the mesh.trust handlers.
RemoveTrustedPeer(deviceId) ==
    /\ nodeB' = [nodeB EXCEPT !.trusted = @ \ {deviceId}]
    /\ UNCHANGED <<nodeA, net, NotMeshVars>>

AddTrustedPeer(deviceId) ==
    /\ nodeB' = [nodeB EXCEPT !.trusted = @ \cup {deviceId}]
    /\ UNCHANGED <<nodeA, net, NotMeshVars>>

-----------------------------------------------------------------------------
(* Specifications *)

InitTrustIdle == trustIn = NoTrust /\ trustOut = "unevaluated"
InitResolveIdle ==
    /\ resolveIn = [channel |-> Absent, to |-> Absent, originGatewayId |-> Absent,
                    command |-> NoCommand, trust |-> NoTrust]
    /\ resolveOut = [ok |-> FALSE, code |-> "none", trust |-> NoTrust]
InitHandshakeIdle ==
    hsIn = [now |-> 0, signedAtMs |-> 0, signatureValid |-> FALSE] /\ hsOut = "unverified"
InitLateIdle == InitSockets /\ managers = None /\ replicas = None /\ inbound = None
InitMoreIdle ==
    /\ InitResolveIdle /\ InitGossip /\ InitRoute /\ InitHandshakeIdle /\ InitDiscovery /\ InitStore
    /\ InitLateIdle
InitForwardIdle ==
    /\ fwdIn = [channel |-> Absent, to |-> Absent, originGatewayId |-> Absent,
                command |-> NoCommand, trust |-> NoTrust]
    /\ fwdSinkThrows = FALSE
    /\ fwdResp = "none"
    /\ onForwardCalls = 0
    /\ senderDecision = "unevaluated"

\* evaluateMeshForwardTrust as a pure function of its input

InitSpecTrust == InitTrust /\ InitForwardIdle /\ InitRegistry /\ InitWorld /\ InitMesh /\ InitMoreIdle
SpecTrust == InitSpecTrust /\ [][Evaluate]_vars

\* the receiver handler and the sender-side check on one forward payload
NextForward == ReceiveForward \/ SenderCheck
InitSpecForward == InitTrustIdle /\ InitForward /\ InitRegistry /\ InitWorld /\ InitMesh /\ InitMoreIdle
SpecForward == InitSpecForward /\ [][NextForward]_vars

\* resolveMeshForwardTrustMetadata as a pure function of the payload
InitFirstIdle ==
    InitTrustIdle /\ InitForwardIdle /\ InitRegistry /\ InitWorld /\ InitMesh /\ InitLateIdle
InitSpecResolve == InitFirstIdle /\ InitResolve /\ InitGossip /\ InitRoute /\ InitHandshakeIdle /\ InitDiscovery /\ InitStore
SpecResolve == InitSpecResolve /\ [][Resolve]_vars

\* three runtimes in a line exchanging context.frame events
NextGossip ==
    \/ \E x, y \in GossipNodes : PeerConnected(x, y)
    \/ \E n \in GossipNodes : BroadcastObservation(n)
    \/ \E x, y \in GossipNodes : SocketMessage(x, y)
InitSpecGossip == InitFirstIdle /\ InitResolveIdle /\ InitGossip /\ InitRoute /\ InitHandshakeIdle /\ InitDiscovery /\ InitStore
SpecGossip == InitSpecGossip /\ [][NextGossip]_vars

\* the capability registry and resolveMeshRoute under any order of calls
NextRoute ==
    \/ \E d \in RoutePeers, caps \in SUBSET Capabilities : UpdatePeer(d, caps)
    \/ \E d \in RoutePeers : RemovePeer(d)
    \/ \E c \in Channels, l \in LocalCapabilityInputs : ResolveMeshRoute(c, l)
InitSpecRoute == InitFirstIdle /\ InitResolveIdle /\ InitGossip /\ InitRoute /\ InitHandshakeIdle /\ InitDiscovery /\ InitStore

\* one capability registry whose peers come, go and come back, with calls
\* of resolveMeshRoute for telegram in between
NextRouteSnapshots ==
    \/ \E d \in RoutePeers, caps \in {{}, {"channel:telegram"}} : UpdatePeer(d, caps)
    \/ \E d \in RoutePeers : RemovePeer(d)
    \/ \E l \in {[present |-> FALSE, caps |-> {}], [present |-> TRUE, caps |-> {}]} :
            ResolveMeshRouteOnSnapshot("telegram", l)
InitSpecRouteSnapshots ==
    /\ InitFirstIdle /\ InitResolveIdle /\ InitGossip /\ InitRouteSnapshots /\ InitHandshakeIdle
    /\ InitDiscovery /\ InitStore
SpecRouteSnapshots == InitSpecRouteSnapshots /\ [][NextRouteSnapshots]_vars

\* one handshake, request or response, with any mix of deviceId, public
\* key and signing key
InitSpecIdentity ==
    /\ InitFirstIdle /\ InitResolveIdle /\ InitGossip /\ InitRoute /\ InitIdentity
    /\ InitDiscovery /\ InitStore
SpecIdentity == InitSpecIdentity /\ [][AuthenticatePeer]_vars

\* MeshDiscovery under any sequence of scan results
NextDiscovery ==
    \/ \E beacons \in BeaconInputs : Scan(beacons)
    \/ ScanFails
InitSpecDiscovery ==
    InitFirstIdle /\ InitResolveIdle /\ InitGossip /\ InitRoute /\ InitHandshakeIdle /\ InitDiscovery
    /\ InitStore
SpecDiscovery == InitSpecDiscovery /\ [][NextDiscovery]_vars

\* two processes using the trust store of one state directory
NextStore ==
    \/ \E p \in StoreProcesses, op \in StoreOps, d \in StoreDevices : BeginStoreOp(p, op, d)
    \/ \E p \in StoreProcesses : EnsureFileAccess(p)
    \/ \E p \in StoreProcesses : EnsureFileWrite(p)
    \/ \E p \in StoreProcesses : AcquireFileLock(p)
    \/ \E p \in StoreProcesses : ReadStore(p)
    \/ \E p \in StoreProcesses : WriteStore(p)
    \/ \E p \in StoreProcesses : ReleaseFileLock(p)
InitSpecStore == InitFirstIdle /\ InitMoreIdle
SpecStore == InitSpecStore /\ [][NextStore]_vars

\* verifyMeshConnectAuth as a pure function of the clock and its params
InitSpecHandshake == InitFirstIdle /\ InitResolveIdle /\ InitGossip /\ InitRoute /\ InitHandshake /\ InitDiscovery /\ InitStore
SpecHandshake == InitSpecHandshake /\ [][VerifyMeshConnectAuth]_vars
SpecRoute == InitSpecRoute /\ [][NextRoute]_vars

\* the peer registry under any order of its operations
InitSpecRegistry == InitTrustIdle /\ InitForwardIdle /\ InitRegistry /\ InitWorld /\ InitMesh /\ InitMoreIdle
NextRegistry ==
    \/ \E d \in DeviceIds, c \in ConnIds : Register(d, c)
    \/ \E c \in ConnIds : Unregister(c)
    \/ \E d \in DeviceIds, sendThrows \in BOOLEAN : Invoke(d, sendThrows)
    \/ \E id \in RequestIds : InvokeTimeout(id)
    \/ \E id \in RequestIds, ok \in BOOLEAN : HandleRpcResult(id, ok)
SpecRegistry == InitSpecRegistry /\ [][NextRegistry]_vars

\* the world model under any sequence of context.frame events
InitSpecWorld == InitTrustIdle /\ InitForwardIdle /\ InitRegistry /\ InitWorld /\ InitMesh /\ InitMoreIdle
NextWorld == \E id \in FrameIds : ContextFrameEvent(id)
SpecWorld == InitSpecWorld /\ [][NextWorld]_vars

\* node A dials node B, sends actuations; B's trust store changes meanwhile
\* The two-node flow uses the two runtimes and the socket between them only:
\* the stand-alone components of the other specifications are not constructed
\* in it (their variables hold "none" throughout).
InitEarlierNotConstructed ==
    /\ trustIn = None /\ trustOut = None /\ fwdIn = None /\ fwdSinkThrows = None
    /\ fwdResp = None /\ onForwardCalls = None /\ senderDecision = None /\ reg = None
    /\ nextRequestId = None /\ world = None /\ ingestTrue = None /\ arrivals = None
    /\ lastIngest = None /\ resolveIn = None /\ resolveOut = None /\ gossipNodes = None
    /\ gossipNet = None /\ capsByPeer = None /\ routeCall = None /\ hsIn = None
    /\ hsOut = None /\ knownPeers = None /\ discovery = None /\ storeFile = None
    /\ storeLock = None /\ storeProcs = None /\ sockets = None
InitNotConstructed ==
    InitEarlierNotConstructed /\ managers = None /\ replicas = None /\ inbound = None
InitSpecMesh == InitMesh /\ InitNotConstructed
NextMesh ==
    \/ Start
    \/ \E authValid \in BOOLEAN : ClientOpen(authValid)
    \/ ClientMessage
    \/ ClientClose
    \/ \E trust \in ActuationTrusts, operation \in Operations : SendMockActuation(trust, operation)
    \/ \E id \in RequestIds : ForwardTimeout(id)
    \/ ServerMessage
    \/ \E h \in nodeB.connecting, ourAuthValid \in BOOLEAN : MeshConnectFinish(h, ourAuthValid)
    \/ ServerClose
    \/ \E d \in {NodeA} : RemoveTrustedPeer(d)
    \/ \E d \in {NodeA} : AddTrustedPeer(d)
SpecMesh == InitSpecMesh /\ [][NextMesh]_vars

\* node A dials node B and calls forwardMessageToPeer with its own or with
\* B's deviceId as the origin
\* the registry of one node with the sockets of its sessions
NextReconnect ==
    \/ \E d \in DeviceIds, c \in ConnIds : SessionRegistered(d, c, {})
    \/ \E c \in ConnIds : SocketClosed(c)
    \/ \E d \in DeviceIds : InvokeOnSession(d)
    \/ \E id \in RequestIds : InvokeTimeout(id)
InitSpecReconnect == InitFirstIdle /\ InitMoreIdle
SpecReconnect == InitSpecReconnect /\ [][NextReconnect]_vars

\* the registry with timers that fire: the event loop runs the callback of
\* every armed timer that is not cleared
NextTimers ==
    \/ \E d \in DeviceIds, c \in ConnIds : Register(d, c)
    \/ \E c \in ConnIds : Unregister(c)
    \/ \E d \in DeviceIds : InvokeOnSession(d)
    \/ \E id \in RequestIds : InvokeTimeout(id)
    \/ \E id \in RequestIds, ok \in BOOLEAN : HandleRpcResult(id, ok)
InitSpecTimers == InitFirstIdle /\ InitMoreIdle
SpecTimers ==
    /\ InitSpecTimers
    /\ [][NextTimers]_vars
    /\ \A id \in RequestIds : WF_vars(InvokeTimeout(id))

\* the registry and the capability registry of one node under handshakes
\* that advertise capabilities and socket closes
NextCapabilities ==
    \/ \E d \in DeviceIds, c \in ConnIds, caps \in AdvertisedInputs : SessionRegistered(d, c, caps)
    \/ \E c \in ConnIds : SocketClosed(c)
InitSpecCapabilities == InitFirstIdle /\ InitMoreIdle
SpecCapabilities == InitSpecCapabilities /\ [][NextCapabilities]_vars

\* the mesh.connect handler of one node with a trust store that holds
\* peer-P, under requests from MeshPeerClients and from other senders; a
\* MeshPeerClient that is refused does close its socket
TrustsP == <<[deviceId |-> "peer-P", addedAt |-> 0]>>
AcceptedConnIds == {"c1", "c2"}
NextConnect ==
    \/ \E c \in AcceptedConnIds, p \in ConnectInputs, byPeerClient \in BOOLEAN :
            MeshConnect(c, p, byPeerClient)
    \/ \E c \in AcceptedConnIds : PeerClientRejected(c)
    \/ \E c \in AcceptedConnIds : DialerCloses(c)
InitSpecConnect ==
    /\ InitFirstIdle
    /\ InitResolveIdle /\ InitGossip /\ InitRoute /\ InitHandshakeIdle /\ InitDiscovery
    /\ storeFile = [exists |-> TRUE, peers |-> TrustsP]
    /\ storeLock = None
    /\ storeProcs = [proc |-> [p \in StoreProcesses |-> IdleProc],
                     begun |-> 0, removes |-> {}, addsReturned |-> {}]
SpecConnect ==
    /\ InitSpecConnect
    /\ [][NextConnect]_vars
    /\ \A c \in AcceptedConnIds : WF_vars(PeerClientRejected(c))

\* two world models that receive the same frames in any order
NextReplicas == \E r \in 1..2, id \in ReplicaFrameIds : ReplicaIngest(r, id)
InitSpecReplicas ==
    /\ InitReplicas /\ InitEarlierNotConstructed /\ nodeA = None /\ nodeB = None /\ net = None
    /\ managers = None /\ inbound = None
SpecReplicas == InitSpecReplicas /\ [][NextReplicas]_vars

\* one world model that receives frames and is asked for its recent frames
NextRecent ==
    \/ \E id \in ReplicaFrameIds : ReplicaIngest(1, id)
    \/ \E limit \in LimitInputs : GetRecentFrames(1, limit)
InitSpecRecent ==
    /\ InitReplicas /\ InitEarlierNotConstructed /\ nodeA = None /\ nodeB = None /\ net = None
    /\ managers = None /\ inbound = None
SpecRecent == InitSpecRecent /\ [][NextRecent]_vars

\* one accepted socket that stays open, under any frames
NextInbound ==
    \/ \E method \in MethodInputs, throws \in BOOLEAN, own \in {"ok", "INVALID_PARAMS"} :
            InboundRequest(method, throws, own)
    \/ InboundContextFrame
InitSpecInbound ==
    /\ InitInbound /\ InitEarlierNotConstructed /\ nodeA = None /\ nodeB = None /\ net = None
    /\ managers = None /\ replicas = None
SpecInbound == InitSpecInbound /\ [][NextInbound]_vars

\* two MeshManagers whose discoveries find each other
NextTiebreak ==
    \/ \E n \in 1..2, hasPort \in BOOLEAN : PeerDiscovered(n, hasPort)
    \/ \E n \in 1..2 : OnPeerDiscovered(n)
    \/ \E n \in 1..2 : PeerClientOpen(n)
    \/ \E m \in 1..2 : ManagerMeshConnect(m)
    \/ \E n \in 1..2 : PeerClientMessage(n)
    \/ \E n \in 1..2 : PeerClientReconnect(n)
InitSpecTiebreak ==
    /\ InitManagers /\ InitEarlierNotConstructed /\ nodeA = None /\ nodeB = None /\ net = None
    /\ replicas = None /\ inbound = None
SpecTiebreak == InitSpecTiebreak /\ [][NextTiebreak]_vars

\* the two runtimes with RPCs issued by the dialing and by the accepting side
NextBothWays ==
    \/ Start
    \/ ClientOpen(TRUE)
    \/ ClientMessage
    \/ ClientClose
    \/ SendMockActuation(defaultActuationTrust, "open")
    \/ \E id \in RequestIds : ForwardTimeout(id)
    \/ ServerMessage
    \/ \E h \in nodeB.connecting : MeshConnectFinish(h, TRUE)
    \/ ServerClose
    \/ QueryPeerMockActuatorState
    \/ \E id \in RequestIds : QueryTimeout(id)
InitSpecBothWays == InitMesh /\ InitNotConstructed
SpecBothWays == InitSpecBothWays /\ [][NextBothWays]_vars

\* the two runtimes with connections that are closed by the client's stop()
InitSpecLifecycle == InitMesh /\ InitNotConstructed
NextLifecycle ==
    \/ Start
    \/ ClientOpen(TRUE)
    \/ ClientMessage
    \/ ClientClose
    \/ ClientStop
    \/ SendMockActuation(defaultActuationTrust, "open")
    \/ \E id \in RequestIds : ForwardTimeout(id)
    \/ ServerMessage
    \/ \E h \in nodeB.connecting : MeshConnectFinish(h, TRUE)
    \/ ServerClose
SpecLifecycle == InitSpecLifecycle /\ [][NextLifecycle]_vars

InitSpecForwardCall ==
    InitTrustIdle /\ InitForwardIdle /\ InitRegistry /\ InitWorld /\ InitMesh /\ InitMoreIdle
NextForwardCall ==
    \/ Start
    \/ ClientOpen(TRUE)
    \/ ClientMessage
    \/ ClientClose
    \/ \E origin \in {NodeA, NodeB} : ForwardMessageToPeer(origin)
    \/ \E id \in RequestIds : ForwardTimeout(id)
    \/ ServerMessage
    \/ \E h \in nodeB.connecting : MeshConnectFinish(h, TRUE)
    \/ ServerClose
SpecForwardCall == InitSpecForwardCall /\ [][NextForwardCall]_vars

\* node A dials node B and its agent calls execute_mesh_command
InitSpecAgentTool ==
    InitTrustIdle /\ InitForwardIdle /\ InitRegistry /\ InitWorld /\ InitMesh /\ InitMoreIdle
NextAgentTool ==
    \/ Start
    \/ ClientOpen(TRUE)
    \/ ClientMessage
    \/ ClientClose
    \/ \E targetRef \in ToolTargetRefs, operation \in Operations, found \in BOOLEAN :
            ExecuteMeshCommand(targetRef, operation, found)
    \/ \E id \in RequestIds : ForwardTimeout(id)
    \/ ServerMessage
    \/ \E h \in nodeB.connecting : MeshConnectFinish(h, TRUE)
    \/ ServerClose
SpecAgentTool == InitSpecAgentTool /\ [][NextAgentTool]_vars

-----------------------------------------------------------------------------
(* Properties *)

\* The order T0 < T1 < T2 < T3 of the trust tiers.
TierRank(tier) ==
    CASE tier = T0 -> 0
      [] tier = T1 -> 1
      [] tier = T2 -> 2
      [] tier = T3 -> 3

\* The forward passed the handler's parameter and loop checks.
WellFormedForward(p) ==
    /\ p.channel # Absent
    /\ p.to # Absent
    /\ p.originGatewayId # Absent
    /\ p.originGatewayId # LocalDeviceId

\* What the consistency check followed by the trust evaluation decide for p.
TrustGateDecision(p) ==
    LET r == resolveMeshForwardTrustMetadata(p) IN
    IF r.ok THEN evaluateMeshForwardTrust(r.trust) ELSE r.code

\* C1: the receiver handler calls onForward and replies ok only if the
\* envelope/top-level consistency check succeeds and the trust evaluation of
\* the resolved trust returns ok; a forward whose trust is denied is answered
\* with the denial code and onForward is not called.
C1_ReceiverGatesOnTrust ==
    fwdResp # "none" =>
        /\ (fwdResp = "ok" \/ onForwardCalls > 0) => TrustGateDecision(fwdIn) = "ok"
        /\ (WellFormedForward(fwdIn) /\ TrustGateDecision(fwdIn) # "ok") =>
                (fwdResp = TrustGateDecision(fwdIn) /\ onForwardCalls = 0)

\* C2: evaluateForwardTrust returns ok for an actuation trust block only if
\* the three required fields are present and inside their domains, the
\* evidence tier is at least the minimum tier, verification is none or
\* satisfied, and the evidence sources are not a non-empty list of llm only.
C2_AcceptedActuationSatisfiesPolicy ==
    (trustOut = "ok" /\ trustIn.present /\ trustIn.action_type = "actuation") =>
        /\ trustIn.evidence_trust_tier \in MeshTrustTier
        /\ trustIn.minimum_trust_tier \in MeshTrustTier
        /\ trustIn.verification_required \in MeshVerificationRequired
        /\ TierRank(trustIn.evidence_trust_tier) >= TierRank(trustIn.minimum_trust_tier)
        /\ (trustIn.verification_required = "none" \/ trustIn.verification_satisfied = "true")
        /\ ~(/\ trustIn.evidence_sources # NoList
             /\ Len(trustIn.evidence_sources) > 0
             /\ EveryLlm(trustIn.evidence_sources))

\* C9: for every forward payload that reaches the trust gate, the sender-side
\* check refuses it with denial code X if and only if the receiver handler
\* refuses it with code X.
C9_SenderAndReceiverRefuseAlike ==
    (fwdResp # "none" /\ senderDecision # "unevaluated" /\ WellFormedForward(fwdIn)) =>
        \A code \in TrustDenials : (senderDecision = code) <=> (fwdResp = code)

\* C10: a forward (a request that carries its channel and to) whose
\* originGatewayId is the receiving node's own deviceId is answered with
\* LOOP_DETECTED and onForward is not called.
C10_LoopDetected ==
    (/\ fwdResp # "none"
     /\ fwdIn.channel # Absent
     /\ fwdIn.to # Absent
     /\ fwdIn.originGatewayId = LocalDeviceId) =>
        (fwdResp = "LOOP_DETECTED" /\ onForwardCalls = 0)

\* C10 witness: a looped forward that carries an acceptable command was refused.
C10_Witness ==
    /\ fwdResp = "LOOP_DETECTED"
    /\ fwdIn.originGatewayId = LocalDeviceId
    /\ fwdIn.command.present
    /\ fwdIn.trust = defaultActuationTrust
    /\ onForwardCalls = 0

\* The postcondition of reconnect eviction for peer P moving from c1 to c2:
\* one session for P, on c2; no session under c1; every RPC that was pending
\* for P has resolved with PEER_DISCONNECTED.
Evicted(before, after, P, c1, c2) ==
    /\ P \in listConnected(after)
    /\ get(after, P) = c2
    /\ getByConnId(after, c1) = None
    /\ \A id \in RequestIds :
          before.pendingRpc[id] = P =>
              after.resolutions[id] = <<"PEER_DISCONNECTED">>

\* C4: when peer P is registered with connId c1 and is registered again with
\* connId c2 before c1 closes, the registry then reports one session for P,
\* with connId c2, lookup by c1 finds no session, and every RPC pending for P
\* at the second register has resolved with PEER_DISCONNECTED.
C4_ReconnectEviction ==
    [][\A P \in DeviceIds : \A c1, c2 \in ConnIds :
          (c1 # c2 /\ get(reg, P) = c1 /\ Register(P, c2))
              => Evicted(reg, reg', P, c1, c2)]_vars

\* The same statement for a registry whose connId index still maps c1 to P.
ReconnectEvictionWhenIndexesAgree ==
    [][\A P \in DeviceIds : \A c1, c2 \in ConnIds :
          (c1 # c2 /\ get(reg, P) = c1 /\ reg.peersByConn[c1] = P /\ Register(P, c2))
              => Evicted(reg, reg', P, c1, c2)]_vars

\* C5: every invoke call resolves exactly once, with one of success,
\* NOT_CONNECTED, SEND_FAILED, TIMEOUT, PEER_DISCONNECTED or the peer's error
\* response: a call that was made is either still pending or has exactly one
\* resolution, never both; and the armed timers are exactly the timers of the
\* pending entries, so a resolved call has no armed timer.
C5_InvokeResolvesOnce ==
    /\ reg.timers = PendingIds(reg)
    /\ \A id \in RequestIds :
          /\ Len(reg.resolutions[id]) <= 1
          /\ \A i \in 1..Len(reg.resolutions[id]) : reg.resolutions[id][i] \in RpcOutcomes
          /\ id < nextRequestId => (id \in PendingIds(reg)) # (Len(reg.resolutions[id]) = 1)
          /\ id >= nextRequestId => id \notin PendingIds(reg) /\ reg.resolutions[id] = <<>>
          /\ reg.resolutions[id] # <<>> => id \notin reg.timers

\* Three calls were made: one timed out, one was answered by the peer, and
\* one is still pending with its timer armed.
C5_Witness ==
    /\ nextRequestId = MaxRpc + 1
    /\ \E a, b, c \in RequestIds :
          /\ reg.resolutions[a] = <<"TIMEOUT">>
          /\ reg.resolutions[b] = <<"success">>
          /\ c \in PendingIds(reg) /\ c \in reg.timers

IngestedIds == {id \in FrameIds : ingestTrue[id] >= 1}

C3_AcceptedPeerIsTrusted ==
    \A h \in nodeB.accepted : h.replied => h.trusted

\* The call of scenario S1: default trust (T3 evidence, minimum T2, human
\* verification satisfied, sources sensor and human), operation open.
S1Call == [trust |-> defaultActuationTrust, operation |-> "open"]

\* C7: the verified actuation of S1 returns ok=true to A and B's valve
\* becomes active with lastOperation open: once A's client has received B's
\* ok response for the call while the call was pending, the call has
\* resolved with the peer's success payload and B applied open.
C7_VerifiedActuationReturnsOk ==
    \A id \in RequestIds :
        (nodeA.issued[id] = S1Call /\ id \in nodeA.answered) =>
            /\ nodeA.reg.resolutions[id] = <<"success">>
            /\ nodeB.applied[id].status = "active"
            /\ nodeB.applied[id].lastOperation = "open"

\* C8: an actuation whose trust is LLM-only is refused by the sender with
\* LLM_ONLY_ACTUATION_BLOCKED, no forward request for it is handed to invoke
\* or travels to the peer, and nothing B's actuator applied stems from it.
C8_LlmOnlyBlockedAtSender ==
    /\ \A r \in nodeA.returned :
          r.trust = buildLlmOnlyActuationTrust => r.error = "LLM_ONLY_ACTUATION_BLOCKED"
    /\ \A id \in RequestIds :
          /\ nodeA.issued[id].trust # buildLlmOnlyActuationTrust
          /\ nodeB.applied[id] # NoActuatorRecord =>
                /\ id \in nodeA.transmitted
                /\ SenderTrustDecision(nodeA.issued[id].trust) = "ok"
    /\ \A i \in 1..Len(net.ab) :
          net.ab[i].method = "mesh.message.forward" =>
              net.ab[i].params.trust # buildLlmOnlyActuationTrust

\* A is connected to B, B's valve is active after an accepted open, and an
\* LLM-only close was refused by the sender.
C8_Witness ==
    /\ get(nodeA.reg, NodeB) # None
    /\ nodeB.actuator[ValveRef].status = "active"
    /\ nodeB.actuator[ValveRef].lastOperation = "open"
    /\ [trust |-> buildLlmOnlyActuationTrust, operation |-> "close",
        error |-> "LLM_ONLY_ACTUATION_BLOCKED"] \in nodeA.returned

\* Two arrays hold the same elements the same number of times (a missing
\* array only matches a missing array).
SameBag(a, b) ==
    IF a = NoList \/ b = NoList THEN a = b
    ELSE /\ Len(a) = Len(b)
         /\ \A x \in {a[i] : i \in 1..Len(a)} \cup {b[i] : i \in 1..Len(b)} :
                Cardinality({i \in 1..Len(a) : a[i] = x}) =
                Cardinality({i \in 1..Len(b) : b[i] = x})

\* The two trust blocks agree on every scalar field and on the two arrays up to order.
CanonicallyEqual(t, u) ==
    /\ t.action_type = u.action_type
    /\ t.evidence_trust_tier = u.evidence_trust_tier
    /\ t.minimum_trust_tier = u.minimum_trust_tier
    /\ t.verification_required = u.verification_required
    /\ t.verification_satisfied = u.verification_satisfied
    /\ SameBag(t.evidence_sources, u.evidence_sources)
    /\ SameBag(t.approved_by, u.approved_by)

C11_WitnessS6 ==
    /\ resolveOut.code = "TRUST_ENVELOPE_MISMATCH"
    /\ resolveIn.trust = StricterTopLevelTrust
    /\ resolveIn.command.trust = defaultActuationTrust

\* No event frame is in flight between the runtimes.
GossipQuiet == \A p \in GossipNodes \X GossipNodes : gossipNet.wire[p] = <<>>

\* C12: in the line A-B-C (A dialed B, B dialed C, so every frame travels
\* towards the side that accepted the connection), once a frame broadcast by A
\* has been delivered everywhere, B has ingested it once and re-emitted it to
\* C with hops = 1, C has ingested it once, and C has not re-emitted it to B.
C12_LineGossipReachesC ==
    \A b \in gossipNet.broadcasts :
        (/\ b.source = GossipA
         /\ <<GossipA, GossipB>> \in b.dialed
         /\ <<GossipB, GossipC>> \in b.dialed
         /\ GossipQuiet)
        => /\ gossipNodes[GossipB].ingested[b.frameId] = 1
           /\ [from |-> GossipB, to |-> GossipC, frameId |-> b.frameId, hops |-> 1]
                  \in gossipNet.emitted
           /\ gossipNodes[GossipC].ingested[b.frameId] = 1
           /\ \A e \in gossipNet.emitted :
                  ~(e.from = GossipC /\ e.to = GossipB /\ e.frameId = b.frameId)

\* C13: after any resolveMeshRoute call for channel x (the registry unchanged
\* since), the result is local exactly when the local set holds "channel:x";
\* otherwise it is mesh(p) for a registered peer p whose set holds "channel:x"
\* when such a peer exists, and unavailable exactly when none does. A
\* "skill:x" anywhere never counts.
C13_RouteLocalFirstAndLiteral ==
    [][\A c \in Channels, l \in LocalCapabilityInputs :
        ResolveMeshRoute(c, l) =>
            LET r == routeCall'.result
                cap == IF c = "telegram" THEN "channel:telegram" ELSE "channel:slack"
                isLocal == l.present /\ cap \in l.caps
                holders == {capsByPeer[i].deviceId :
                                i \in {j \in 1..Len(capsByPeer) : cap \in capsByPeer[j].caps}}
            IN /\ (r.kind = "local") <=> isLocal
               /\ (r.kind = "mesh") <=> (~isLocal /\ holders # {})
               /\ (r.kind = "mesh") => r.peerDeviceId \in holders
               /\ (r.kind = "unavailable") <=> (~isLocal /\ holders = {})]_vars

\* A call routed to the mesh while a peer and the local set hold only "skill:telegram"
\* next to another peer that holds "channel:telegram".
C13_Witness ==
    /\ routeCall.channel = "telegram"
    /\ routeCall.result = [kind |-> "mesh", peerDeviceId |-> "peer-bbb"]
    /\ routeCall.localCapabilities = [present |-> TRUE, caps |-> {"skill:telegram"}]
    /\ Len(capsByPeer) = 2
    /\ capsByPeer[1] = [deviceId |-> "peer-aaa", caps |-> {"skill:telegram"}]
    /\ "channel:telegram" \in capsByPeer[2].caps

\* C14: a frame delivered again while it is still in the ring buffer changes
\* nothing: the seen-set always holds the frameId of every frame in the ring
\* buffer (also right after a trim), so ingest returns false for it and
\* leaves the entries with their updateCounts and the ring buffer as they were.
C14_RedeliveryInRingBufferIsNoUpdate ==
    [][/\ \A i \in 1..Len(world'.frameLog) :
             world'.frameLog[i].frameId \in world'.seenFrameIds
       /\ \A id \in FrameIds :
            (ContextFrameEvent(id)
             /\ \E i \in 1..Len(world.frameLog) : world.frameLog[i].frameId = id)
            => /\ ~lastIngest'.new
               /\ ingestTrue' = ingestTrue
               /\ world'.entries = world.entries
               /\ world'.frameLog = world.frameLog]_vars

\* After a trim of the seen-set, a frame of the ring buffer was delivered again.
C14_Witness ==
    /\ lastIngest.trims >= 1
    /\ lastIngest.wasInLog
    /\ ~lastIngest.new
    /\ Cardinality(world.seenFrameIds) = MaxHistory

\* C15: a forward the receiver refused is reported to the caller of
\* forwardMessageToPeer as that failure: for every call whose refusal
\* (LOOP_DETECTED, ...) reached the caller's client while the call was
\* pending, the value returned has ok = false and carries the error of the
\* refusal's code, not success and not another failure.
C15_RefusalReportedAsItself ==
    \A id \in nodeA.rejected :
        nodeA.reg.resolutions[id] # <<>> =>
            LET result == ForwardResult(nodeA.reg.resolutions[id][1], nodeB.refused[id])
            IN /\ ~result.ok
               /\ result.error = ErrorMessage(nodeB.refused[id])

\* C16: no call of the agent tool execute_mesh_command, for any target and
\* operation and whatever the session state, changes an actuator: the mock
\* actuator of the receiving node holds no record for any target.
C16_AgentToolNeverActuates ==
    /\ \A t \in ActuatorRefs : nodeB.actuator[t] = NoActuatorRecord
    /\ \A id \in RequestIds : nodeB.applied[id] = NoActuatorRecord

\* The tool was refused at the sender for the valve, and a call for the
\* sensor target went through the receiver's handler and was answered ok.
C16_Witness ==
    /\ \E r \in nodeA.returned :
          r.trust.action_type = "actuation" /\ r.error = "LLM_ONLY_ACTUATION_BLOCKED"
    /\ \E id \in nodeA.answered : nodeA.issued[id].trust.action_type = "observation"

\* The distance between the verifier's clock and signedAtMs, in milliseconds.
HsDrift == IF hsIn.now >= hsIn.signedAtMs THEN hsIn.now - hsIn.signedAtMs
           ELSE hsIn.signedAtMs - hsIn.now

\* C17: a correctly signed handshake whose drift is exactly 5 minutes is
\* rejected, one at 4 minutes is accepted, and one beyond 5 minutes is
\* rejected, in the past or in the future.
C17_FiveMinutesRejected ==
    (hsOut # "unverified" /\ hsIn.signatureValid) =>
        /\ HsDrift = 300000 => hsOut = "false"
        /\ HsDrift = 240000 => hsOut = "true"
        /\ HsDrift > 300000 => hsOut = "false"

\* C17 as amended: a correctly signed handshake is accepted exactly when its
\* drift is at most 5 minutes (300000 ms), in the past or in the future: 4
\* minutes and exactly 5 minutes are accepted, 5 minutes and 1 ms is rejected.
C17_AcceptedUpToFiveMinutes ==
    (hsOut # "unverified" /\ hsIn.signatureValid) =>
        /\ (hsOut = "true") <=> (HsDrift <= 300000)
        /\ HsDrift = 300000 => hsOut = "true"
        /\ HsDrift = 240000 => hsOut = "true"
        /\ HsDrift = 300001 => hsOut = "false"

\* A correctly signed handshake dated exactly 5 minutes in the future was accepted.
C17_Witness ==
    /\ hsOut = "true"
    /\ hsIn.signatureValid
    /\ hsIn.signedAtMs - hsIn.now = 300000

\* C18: for every peer, peer-discovered has been emitted once for each
\* window of continuous presence in the scans' results and peer-lost once for
\* each window that has ended (at the first scan whose result lacks the peer),
\* so a peer is announced again only after it was lost; and no event of
\* either kind is ever emitted for the local deviceId, whatever the beacons.
C18_DiscoveryEventsPerPresenceWindow ==
    /\ \A d \in DiscoveryIds \ {LocalDevice} :
          /\ discovery.discovered[d] = discovery.began[d]
          /\ discovery.lost[d] = discovery.ended[d]
          /\ discovery.lost[d] <= discovery.discovered[d]
          /\ discovery.discovered[d] <= discovery.lost[d] + 1
    /\ discovery.discovered[LocalDevice] = 0
    /\ discovery.lost[LocalDevice] = 0

\* peer-a was present in two windows (announced, lost, announced again) while
\* the local beacon was seen in the last scan.
C18_Witness ==
    /\ discovery.discovered["peer-a"] = 2
    /\ discovery.lost["peer-a"] = 1
    /\ LocalDevice \in discovery.present
    /\ InSeq("peer-a", knownPeers)

\* C19: no update to the trust store is lost under concurrent operations of
\* several processes: once every operation has returned, each deviceId whose
\* addTrustedPeer returned and that nobody asked to remove is in the store,
\* also when the store file did not exist when the operations began.
C19_NoLostTrustUpdate ==
    (\A p \in StoreProcesses : storeProcs.proc[p].pc = "idle") =>
        \A d \in storeProcs.addsReturned \ storeProcs.removes :
            /\ storeFile.exists
            /\ HasPeer(storeFile.peers, d)

\* The session between x and y was established when the set dialed was recorded.
GossipSession(dialed, x, y) == <<x, y>> \in dialed \/ <<y, x>> \in dialed

\* C20: a frame broadcast with broadcastObservation is ingested by every peer
\* that had an established session with the broadcaster, whichever side
\* dialed: once nothing is in flight, each such peer has ingested the frame
\* once, and its entry for the frame's key holds the frameId of the last
\* frame the source broadcast to it.
C20_BroadcastIngestedByEveryPeer ==
    GossipQuiet =>
        \A b \in gossipNet.broadcasts, q \in GossipNodes :
            GossipSession(b.dialed, b.source, q) =>
                /\ gossipNodes[q].ingested[b.frameId] = 1
                /\ LET key == makeKey(broadcastObservation(b.source, b.frameId))
                       sent == {c \in gossipNet.broadcasts :
                                   c.source = b.source /\ GossipSession(c.dialed, c.source, q)}
                   IN \A c \in sent :
                         c.frameId <= gossipNodes[q].worldModel.entries[key].lastFrame

\* The same for the peers that accepted the broadcaster's connection: the case
\* the code serves.
GossipToAcceptorsIngested ==
    GossipQuiet =>
        \A b \in gossipNet.broadcasts, q \in GossipNodes :
            <<b.source, q>> \in b.dialed => gossipNodes[q].ingested[b.frameId] = 1

\* A store operation of process p has its result and is about to return.
StoreReturning(p) == storeProcs.proc[p].pc = "unlock"

\* No other process is inside a store operation.
StoreAlone(p) == \A q \in StoreProcesses \ {p} : storeProcs.proc[q].pc = "idle"

\* C21: insertion into the trust set is idempotent by deviceId.  The store
\* never lists a deviceId twice; an addTrustedPeer for a listed deviceId
\* returns added=false and a removeTrustedPeer for an unlisted one returns
\* removed=false, both without writing, so that the store is what it was (the
\* original entry kept) when no other operation is running; and when a
\* removeTrustedPeer returns, the deviceId is not in the store.
C21_TrustSetIdempotent ==
    /\ \A i, j \in 1..Len(storeFile.peers) :
            storeFile.peers[i].deviceId = storeFile.peers[j].deviceId => i = j
    /\ \A p \in StoreProcesses :
            LET me == storeProcs.proc[p]
                listed == HasPeer(me.peers, me.deviceId)
            IN  StoreReturning(p) =>
                    /\ (me.op = "add" /\ listed) \/ (me.op = "remove" /\ ~listed) =>
                            /\ me.result = "false"
                            /\ ~me.wrote
                            /\ StoreAlone(p) => storeFile.peers = me.peers
                    /\ (me.op = "add" /\ ~listed) \/ (me.op = "remove" /\ listed) =>
                            me.result = "true" /\ me.wrote
                    /\ me.op = "remove" => ~HasPeer(storeFile.peers, me.deviceId)
                    /\ me.op = "isTrusted" => (me.result = "true" <=> listed)

\* A second addTrustedPeer for device-1 returns added=false while the entry of
\* the first one, made by an earlier call, is in the store.
C21_Witness ==
    \E p \in StoreProcesses :
        LET me == storeProcs.proc[p] IN
        /\ StoreReturning(p) /\ StoreAlone(p)
        /\ me.op = "add" /\ me.deviceId = "device-1" /\ me.result = "false"
        /\ \E i \in 1..Len(storeFile.peers) :
                storeFile.peers[i].deviceId = "device-1" /\ storeFile.peers[i].addedAt < me.at

\* C22: after any sequence of registers and unregisters (several successful
\* mesh.connect requests on one connection and reconnects included) the two
\* indexes of the registry agree: every session of the deviceId index has its
\* connId mapped to its deviceId in the connId index, every connId entry
\* points to a session with that connId, and no two sessions share a connId.
C22_RegistryIndexesAgree ==
    /\ \A d \in DeviceIds :
            reg.peersById[d] # None => reg.peersByConn[reg.peersById[d]] = d
    /\ \A c \in ConnIds :
            reg.peersByConn[c] # None => reg.peersById[reg.peersByConn[c]] = c
    /\ \A d, e \in DeviceIds :
            reg.peersById[d] # None /\ reg.peersById[d] = reg.peersById[e] => d = e

\* The client of node A has no socket and every event of its last one is handled.
ClientSocketGone == nodeA.client.ws \in {"none", "stopped"}

\* The socket node B accepted has closed and no handshake on it is in progress.
InboundSocketGone == nodeB.inbound.state = "closed" /\ nodeB.connecting = {}

\* C23: a session is in the registry only while its socket is open.  Once a
\* connection has closed (also by MeshPeerClient.stop() or the runtime's
\* stop(), also while a handshake was in progress) and the resulting events
\* are handled, its session is not listed and no RPC for the peer is pending.
C23_SessionOnlyWhileSocketOpen ==
    /\ ClientSocketGone =>
            get(nodeA.reg, NodeB) = None /\ PendingIds(nodeA.reg) = {}
    /\ InboundSocketGone =>
            get(nodeB.reg, NodeA) # nodeB.inbound.connId

\* The same for the connections the client itself closes after a response it
\* refuses and for B's side of a connection with no handshake under way when
\* it closed.
SessionGoneWithoutStop ==
    nodeA.client.ws = "none" => get(nodeA.reg, NodeB) = None /\ PendingIds(nodeA.reg) = {}

\* C24: when register replaces a session of the same deviceId, the older
\* session is torn down first, its socket closed: after the register of P on
\* c2 the socket of the replaced connection c1 is closed, and no open socket
\* belongs to a connection without a listed session.
C24_ReplacedSocketClosed ==
    /\ [][\A P \in DeviceIds : \A c1, c2 \in ConnIds :
            (c1 # c2 /\ get(reg, P) = c1 /\ SessionRegistered(P, c2, {}))
                => sockets'.state[c1] = "closed"]_vars
    /\ [](\A c \in ConnIds :
            sockets.state[c] = "open" => \E d \in DeviceIds : get(reg, d) = c)

\* C25: unregister(connId) removes the deviceId's session only if the stored
\* session has that connId.  When the close of a connection is handled, every
\* peer whose session is on another connection (a peer that has reconnected
\* on c2 before its older connection c1 closed) keeps that session, its
\* socket as it was, and its pending RPCs pending and unresolved.
C25_LateCloseKeepsNewSession ==
    [][\A c1 \in ConnIds : SocketClosed(c1) =>
          \A P \in DeviceIds :
              (get(reg, P) # None /\ get(reg, P) # c1) =>
                  /\ get(reg', P) = get(reg, P)
                  /\ sockets'.state[get(reg, P)] = sockets.state[get(reg, P)]
                  /\ \A id \in RequestIds :
                        reg.pendingRpc[id] = P =>
                            /\ reg'.pendingRpc[id] = P
                            /\ id \in reg'.timers
                            /\ reg'.resolutions[id] = <<>>]_vars

\* peer-P connected on c1, reconnected on c2, an RPC for it is pending, and
\* the close of c1 was handled while its session was already on c2.
C25_Witness ==
    /\ sockets.lastClose = [connId |-> "c1", current |-> "c2"]
    /\ sockets.owner["c1"] = "peer-P"
    /\ get(reg, "peer-P") = "c2"
    /\ sockets.state["c2"] = "open"
    /\ \E id \in RequestIds : reg.pendingRpc[id] = "peer-P"

\* The capability entry of a deviceId: its set, or the empty set without one.
CapsOf(deviceId) ==
    UNION {capsByPeer[i].caps : i \in {j \in 1..Len(capsByPeer) : capsByPeer[j].deviceId = deviceId}}

HasCapsEntry(deviceId) == \E i \in 1..Len(capsByPeer) : capsByPeer[i].deviceId = deviceId

\* The peer has a session and the socket of that session is open.
LiveSession(deviceId) ==
    get(reg, deviceId) # None /\ sockets.state[get(reg, deviceId)] = "open"

\* C26: the capability registry tracks sessions.  It holds an entry for a
\* deviceId only if the peer has a live session, and a peer with a live
\* session has exactly the capabilities its current session advertised (none
\* when it advertised nothing), also after an older connection of the peer
\* closed later than the newer one was registered.
C26_CapabilitiesTrackSessions ==
    \A d \in DeviceIds :
        /\ HasCapsEntry(d) => LiveSession(d)
        /\ LiveSession(d) => CapsOf(d) = sockets.advertised[d]

\* The same for peers whose current session advertised at least one capability.
CapabilitiesOfAdvertisingSessions ==
    \A d \in DeviceIds :
        (LiveSession(d) /\ sockets.advertised[d] # {}) => CapsOf(d) = sockets.advertised[d]

\* The session between A and B is established and both sockets are open.
SessionEstablished ==
    /\ nodeA.client.ws = "open" /\ get(nodeA.reg, NodeB) = nodeA.client.connId
    /\ nodeB.inbound.state = "open" /\ get(nodeB.reg, NodeA) = nodeB.inbound.connId

\* A frame of the given type and id is in the sequence.
InFlight(frames, type, id) ==
    \E i \in 1..Len(frames) : frames[i].type = type /\ frames[i].id = id

\* C27: RPC works in both directions of an established session.  A call of
\* the dialing node whose response its socket has delivered is resolved with
\* that response; and while the session is established, a call pending on
\* the accepting node has its request on the way to the peer or the peer's
\* response on the way back: the peer's message handler dispatched it.
C27_RpcBothDirections ==
    /\ \A id \in nodeA.answered \cup nodeA.rejected :
            nodeA.reg.resolutions[id] \in {<<"success">>, <<"remote-error">>}
    /\ SessionEstablished =>
            \A id \in PendingIds(nodeB.reg) :
                InFlight(net.ba, "req", id) \/ InFlight(net.ab, "res", id)

\* The accepting side's part of the statement alone.
AcceptorCallServed ==
    SessionEstablished =>
        \A id \in PendingIds(nodeB.reg) :
            InFlight(net.ba, "req", id) \/ InFlight(net.ab, "res", id)

\* C28: every invoke on a connected peer eventually resolves.  A pending
\* entry always has its timer armed; a timer that fires removes the entry and
\* resolves the call with TIMEOUT; and every pending call is in the end not
\* pending and has one resolution.  The timeout defaults to 30 s.
C28_PendingEventuallyResolves ==
    /\ [](reg.timers = PendingIds(reg))
    /\ [][\A id \in RequestIds : InvokeTimeout(id) =>
            /\ id \notin PendingIds(reg')
            /\ reg'.resolutions[id] = <<"TIMEOUT">>]_vars
    /\ \A id \in RequestIds :
            (id \in PendingIds(reg)) ~>
                (id \notin PendingIds(reg) /\ Len(reg.resolutions[id]) = 1)
    /\ [](invokeTimeoutMs(Absent) = 30 * 1000)

\* A call on a connected peer was resolved by its timer: the session is still
\* registered, nothing is pending, and the resolution is TIMEOUT.
C28_Witness ==
    /\ \E id \in RequestIds : reg.resolutions[id] = <<"TIMEOUT">>
    /\ get(reg, "peer-P") # None
    /\ PendingIds(reg) = {}
    /\ nextRequestId > 1

\* The first step a request fails when the trust store holds peer-P alone.
FirstFailingStep(p) ==
    IF ~p.present \/ p.missing # {} \/ p.signedAtMs = 0 THEN "INVALID_PARAMS"
    ELSE IF p.deviceId # "peer-P" THEN "UNTRUSTED_PEER"
    ELSE IF ~p.signatureValid \/ p.signedAtMs # ConnectNow THEN "AUTH_FAILED"
    ELSE "ok"
FailedConnectKeepsState ==
    [][sockets'.lastConnect # sockets.lastConnect =>
        LET c == sockets'.lastConnect.connId
            p == sockets'.lastConnect.params
        IN /\ sockets'.answer[c] = FirstFailingStep(p)
           /\ sockets'.answer[c] \in ConnectFailures =>
                    reg' = reg /\ capsByPeer' = capsByPeer]_vars
\* C29: a mesh.connect that fails a verification step is answered with the
\* error of the first failing step in the order INVALID_PARAMS, UNTRUSTED_PEER,
\* AUTH_FAILED; it registers no session, changes no capability entry, and the
\* connection is closed.
C29_FailedConnectClosesConnection ==
    /\ FailedConnectKeepsState
    /\ \A c \in ConnIds :
            (sockets.answer[c] \in ConnectFailures) ~> (sockets.state[c] = "closed")

\* The part of C29 that the handler keeps, with the closing left to the
\* dialer: a refused MeshPeerClient's connection is closed in the end.
RefusedPeerClientCloses ==
    /\ FailedConnectKeepsState
    /\ \A c \in ConnIds :
            (sockets.answer[c] \in ConnectFailures /\ sockets.dialer[c] = "MeshPeerClient")
                ~> (sockets.state[c] = "closed")

\* The manager whose deviceId comes first in lexicographic order: at the
\* first position where the two differ it has the smaller unit, or it is a
\* proper prefix of the other.
ComesFirst(a, b) ==
    \/ \E i \in 1..Len(a) :
            /\ i <= Len(b)
            /\ a[i] < b[i]
            /\ \A j \in 1..(i - 1) : a[j] = b[j]
    \/ Len(a) < Len(b) /\ \A j \in 1..Len(a) : a[j] = b[j]
SmallerManager == CHOOSE n \in 1..2 : ComesFirst(managers.id[n], managers.id[Other(n)])
MutuallyTrusted == managers.trusts[1] /\ managers.trusts[2]
\* Both have discovered the other, and nothing is pending or in flight.
ConnectionsSettled ==
    \A n \in 1..2 :
        /\ managers.found[n]
        /\ managers.pc[n] = "idle"
        /\ managers.client[n] \in {"none", "connected"}
        /\ ~managers.req[n]
        /\ managers.res[n] = None

\* C30: when two mutually trusted peers discover each other, only the one
\* with the lexicographically smaller deviceId starts an outbound connection
\* and the other starts none; once connections settle each holds exactly one
\* session for the other, both over the one connection the smaller dialed.
C30_SmallerDeviceIdDials ==
    MutuallyTrusted =>
        /\ managers.client[Other(SmallerManager)] = "none"
        /\ \A n \in 1..2 : managers.session[n] \in {0, SmallerManager}
        /\ ConnectionsSettled =>
                /\ managers.client[SmallerManager] = "connected"
                /\ \A n \in 1..2 : managers.session[n] = SmallerManager

\* Two mutually trusted managers each found the other once, the connections
\* settled, and each holds its session over the connection the smaller dialed.
C30_Witness ==
    /\ MutuallyTrusted
    /\ ConnectionsSettled
    /\ managers.emitted = <<1, 1>>
    /\ managers.session = <<SmallerManager, SmallerManager>>

OutsideDomain(trust) ==
    \/ trust.evidence_trust_tier \notin MeshTrustTier \cup {Absent}
    \/ trust.minimum_trust_tier \notin MeshTrustTier \cup {Absent}
    \/ trust.verification_required \notin MeshVerificationRequired \cup {Absent}
\* The result the trust rules state for a payload with this trust block.
StatedTrustResult(trust) ==
    IF ~trust.present THEN "ok"
    ELSE IF OutsideDomain(trust) THEN "INVALID_TRUST_POLICY"
    ELSE IF trust.action_type # "actuation" THEN "ok"
    ELSE IF Absent \in {trust.evidence_trust_tier, trust.minimum_trust_tier,
                        trust.verification_required}
        THEN "TRUST_METADATA_REQUIRED"
    ELSE IF trust.evidence_sources \notin {NoList, <<>>}
            /\ \A i \in DOMAIN trust.evidence_sources : trust.evidence_sources[i] = "llm"
        THEN "LLM_ONLY_ACTUATION_BLOCKED"
    ELSE IF TierRank(trust.evidence_trust_tier) < TierRank(trust.minimum_trust_tier)
        THEN "INSUFFICIENT_TRUST_TIER"
    ELSE IF trust.verification_required # "none" /\ trust.verification_satisfied # "true"
        THEN "VERIFICATION_REQUIRED"
    ELSE "ok"

\* C31: evaluateMeshForwardTrust returns each typed denial exactly under its
\* stated condition: INVALID_TRUST_POLICY whenever a tier or verification value
\* is outside its domain, for any action_type; for actuation the four denials
\* in their order; ok for the other action types and without a trust block.
C31_TypedDenials ==
    (trustOut # "unevaluated" /\ (trustIn.present => trustIn.action_type # Absent)) =>
        trustOut = StatedTrustResult(trustIn)

\* C31 on the trust blocks whose tiers are not names that an object literal
\* inherits: there every result is the stated one.
TypedDenialsOffPrototype ==
    (/\ trustOut # "unevaluated"
     /\ trustIn.present => trustIn.action_type # Absent
     /\ {trustIn.evidence_trust_tier, trustIn.minimum_trust_tier} \cap ObjectPrototypeKeys = {}) =>
        trustOut = StatedTrustResult(trustIn)

\* C32: two world models that ingested the same set of frames, in whatever
\* arrival orders, have the same lastFrame for every key.
C32_SameFramesSameLastFrame ==
    replicas.w[1].seenFrameIds = replicas.w[2].seenFrameIds =>
        \A k \in Keys : replicas.w[1].entries[k].lastFrame = replicas.w[2].entries[k].lastFrame

\* The frameIds of seq whose frames have key k, in order.
WithKey(seq, k) == SelectSeq(seq, LAMBDA id : makeKey(FrameOf(id)) = k)
\* The key the frame is filed under: source, kind, zone and metric for an
\* observation with both, source, kind and the data otherwise.
StatedKey(frame) ==
    IF frame.kind = "observation" /\ frame.data.zone # Absent /\ frame.data.metric # Absent
    THEN <<frame.sourceDeviceId, frame.kind, frame.data.zone, frame.data.metric>>
    ELSE <<frame.sourceDeviceId, frame.kind, frame.data>>

C40_RecentFramesAtMostLimit ==
    replicas.recent.of # 0 =>
        LET log == replicas.recent.log
            frames == replicas.recent.frames
        IN /\ Len(frames) <= replicas.recent.limit
           /\ Len(frames) <= Len(log)
           /\ \A i \in 1..Len(frames) : frames[i] = log[Len(log) - Len(frames) + i]

\* C40 for the limits above zero.
RecentFramesAtMostPositiveLimit ==
    (replicas.recent.of # 0 /\ replicas.recent.limit > 0) =>
        LET log == replicas.recent.log
            frames == replicas.recent.frames
        IN /\ Len(frames) = IF Len(log) < replicas.recent.limit THEN Len(log)
                            ELSE replicas.recent.limit
           /\ \A i \in 1..Len(frames) : frames[i] = log[Len(log) - Len(frames) + i]

\* The deviceId -> capabilities content of a registry.
RegistryContent(map) == {map[i] : i \in 1..Len(map)}

\* C34: when several peers advertise channel:x and the local node does not,
\* a resolveMeshRoute call made on a registry with the same deviceId ->
\* capabilities content as the call before it, for the same channel, yields
\* the same peer, whatever was added, updated or removed and re-added in
\* between.
C34_RouteStableAcrossSnapshots ==
    [][\A l \in LocalCapabilityInputs :
        (/\ ResolveMeshRouteOnSnapshot("telegram", l)
         /\ routeCall.channel = "telegram"
         /\ RegistryContent(routeCall.snapshot) = RegistryContent(capsByPeer)
         /\ Cardinality({e \in RegistryContent(capsByPeer) : "channel:telegram" \in e.caps}) > 1
         /\ routeCall.result.kind = "mesh")
        => routeCall'.result = routeCall.result]_vars

\* The res frames sent with id.
ResWithId(id) == SelectSeq(inbound.res, LAMBDA f : f.id = id)

\* C35: for every well-formed req frame received while the socket stays
\* open exactly one res frame with its id is sent: UNKNOWN_METHOD if no
\* handler is registered for the method, INTERNAL_ERROR if the handler throws,
\* the handler's own response otherwise; requests after a throwing handler
\* are served alike.
C35_OneResponsePerRequest ==
    \A id \in 1..Len(inbound.reqs) :
        LET r == inbound.reqs[id] IN
        /\ Len(ResWithId(id)) = 1
        /\ ResWithId(id)[1].code =
                IF r.method \notin RegisteredMethods THEN "UNKNOWN_METHOD"
                ELSE IF r.throws THEN "INTERNAL_ERROR"
                ELSE r.own

\* C35 for the methods that object literals do not inherit.
OneResponsePerOwnOrUnknownMethod ==
    \A id \in 1..Len(inbound.reqs) :
        LET r == inbound.reqs[id] IN
        r.method \notin {"toString", "valueOf"} =>
            /\ Len(ResWithId(id)) = 1
            /\ ResWithId(id)[1].code =
                    IF r.method \notin RegisteredMethods THEN "UNKNOWN_METHOD"
                    ELSE IF r.throws THEN "INTERNAL_ERROR"
                    ELSE r.own

\* C36: frames received on an inbound connection that has not completed a
\* successful mesh.connect have no effect beyond handshake processing: no
\* method other than mesh.connect is dispatched for them, onForward is not
\* called, and no context frame is ingested.
C36_NoEffectBeforeHandshake ==
    /\ inbound.ingested = 0
    /\ inbound.onForward = 0
    /\ \A id \in 1..Len(inbound.reqs) :
            LET r == inbound.reqs[id] IN
            (~r.session /\ r.method # "mesh.connect") =>
                \A i \in 1..Len(ResWithId(id)) :
                    ResWithId(id)[i].code \notin {"ok", "INTERNAL_ERROR", "INVALID_PARAMS"}

\* C37: a session is registered under deviceId D only if the other party
\* signed with the private key whose public key hashes to D; a request or
\* response with D, the public key of another key pair and a signature valid
\* under that key registers nothing.
C37_SessionOnlyForKeyOwner ==
    hsOut = "registered" =>
        /\ DeviceIdOfKey(hsIn.signature.key) = hsIn.deviceId
        /\ DeviceIdOfKey(hsIn.publicKey) = hsIn.deviceId

\* C38: once MeshPeerClient.stop() has been called the client opens no
\* further connection and registers no session, whatever open, message, close
\* or reconnect-timer events were in flight when it was called.
C38_StoppedClientStaysQuiet ==
    [][nodeA.client.ws \in {"detached", "stopped"} =>
        /\ net'.conns = net.conns
        /\ nodeA'.client.ws \in {"detached", "stopped"}
        /\ get(nodeA'.reg, NodeB) \in {None, get(nodeA.reg, NodeB)}]_vars

\* The part of C38 about connections: a stopped client opens none.
StoppedClientOpensNothing ==
    [][nodeA.client.ws \in {"detached", "stopped"} =>
        /\ net'.conns = net.conns
        /\ nodeA'.client.ws \in {"detached", "stopped"}]_vars

\* C39: between registry operations every pending RPC entry belongs to a
\* deviceId that has a session in the deviceId index.
C39_PendingOnlyForRegisteredPeers ==
    \A id \in PendingIds(reg) : get(reg, reg.pendingRpc[id]) # None

\* A peer's session has been unregistered while it had a call pending (the call
\* was failed with PEER_DISCONNECTED), and a later call to a registered peer is
\* pending now.
C39_Witness ==
    /\ \E id \in RequestIds : reg.resolutions[id] = <<"PEER_DISCONNECTED">>
    /\ PendingIds(reg) # {}
    /\ \E d \in DeviceIds : get(reg, d) = None

====
